---- MODULE Spec2Model ----
(***************************************************************************)
(* A model of the SLS bulk-transfer protocol (NACK-driven block assembly   *)
(* over UDP): the chunk/segment codec, the AEAD nonce generator, the       *)
(* TCP-like congestion control, the multipath weight manager and the       *)
(* sender/receiver engines of examples/large_file_test.rs.                 *)
(*                                                                         *)
(* Each subsystem has its own specification (SpecSegment, SpecCipher, ...) *)
(* over its own variables; the variables of the other subsystems are held  *)
(* at their idle values.                                                   *)
(***************************************************************************)
EXTENDS Integers, Sequences, FiniteSets, TLC

VARIABLES
    seg,        \* chunk.rs Segment under assembly (receive side)
    seg_src,    \* the data and chunk size the segment's chunks were split from
    seg_last,   \* the last insert_chunk call: its chunk, result and the segment before it
    nonce_counter,  \* crypto.rs SegmentCipher.nonce_counter (u64, as 16/16/32-bit limbs)
    cipher_nonces,  \* the nonces of the recorded encrypt_segment calls, in call order
    cc,         \* large_file_test.rs CongestionControl
    cc_hist,    \* the on_feedback calls so far, latest last: arguments and state before
    nics,       \* multipath.rs PathManager.nics: sequence of [ratio, active], NIC id i at index i + 1
    nic_stats,  \* PathManager.stats: sequence of NicStats
    pm_pc,      \* where the thread calling add_nic / activate_nic / deactivate_nic stands
    pm_last,    \* the latest PathManager step that touched nics
    pm_timer,   \* whether the task that calls adjust_ratios periodically is still running
    rx_encrypt,             \* run_client: `encrypt`
    recv_rx,                \* the queue from the receive task to the workers
    workers,                \* per worker: its position and the chunk it holds
    segment_chunks,         \* <<segment_id, chunk_id>> -> stored chunk data
    segment_total_chunks,   \* segment_id -> total_chunks of the latest chunk
    assembled_segments,     \* the set of segment ids handed to the assembler
    assembled_ch,           \* the channel from the workers to assemble_task
    decrypted_segments,     \* segment_id -> output bytes
    rx_hist,                \* what the receiver did: datagrams taken, chunks stored
                            \* with a failing crc, total_chunks at hand-over, the
                            \* latest assemble_task iteration
    srv,            \* run_server: position, encrypt flag, AEAD session
    cli,            \* run_client: position, retry_count, Init resends while waiting
                    \* for InitAck, AEAD session
    net,            \* the datagrams sent so far, per direction
    srv_recv_rx,    \* run_server's queue from its receive task
    xfer_in,        \* the transfer's input: the sender's data and the negotiated sizes
    chunks_cache,   \* run_server: segment_id -> chunks kept for retransmission
    nack_ch,        \* run_server: the channel from the dispatcher to the NACK workers
    received_data   \* run_client: the output byte stream, once concatenated

SegVars == <<seg, seg_src, seg_last>>
CipherVars == <<nonce_counter, cipher_nonces>>
CcVars == <<cc, cc_hist>>
PmVars == <<nics, nic_stats, pm_pc, pm_last, pm_timer>>

RxVars == <<rx_encrypt, recv_rx, workers, segment_chunks, segment_total_chunks,
            assembled_segments, assembled_ch, decrypted_segments, rx_hist>>

HsVars == <<srv, cli, net, srv_recv_rx>>

XfVars == <<xfer_in, chunks_cache, nack_ch, received_data>>

vars == <<SegVars, CipherVars, CcVars, PmVars, RxVars, HsVars, XfVars>>

----------------------------------------------------------------------------
(* Bounds of the model *)

\* payload bytes are drawn from 0..MaxByte
MaxByte == 1
\* longest segment payload of the codec specification
MaxSegLen == 3
\* largest chunk size of the codec specification
MaxChunkSize == 2
\* segment ids passed to encrypt_segment are drawn from 1..MaxCipherSegId
MaxCipherSegId == 2
\* encrypt_segment calls whose nonce is recorded, per behaviour
MaxSealCalls == 3
\* the upper 32 bits of nonce_counter stay below this
MaxCounterHigh == 2
\* on_feedback calls per behaviour
MaxFeedbacks == 4
\* NICs a PathManager gets
MaxNics == 2
\* record_arrival calls and recorded losses per behaviour, over all NICs
MaxArrivals == 3
MaxLost == 1
\* receiver workers, and datagrams handed to them per behaviour
MaxWorkers == 2
MaxRxArrivals == 3
\* handshake: datagram deliveries per direction, and the client's max_retries
MaxHsDeliveries == 3
MaxInitRetries == 2
\* Init retransmissions while the client waits for InitAck
MaxAckResends == 1
\* transfer: bytes of input; iterations of the client's scheduler loop that do not
\* leave it
MaxFileLen == 4
MaxTicks == 1
\* recovery: datagrams on the path to the receiver before the sender waits
MaxQueue == 3
\* sender.rs: send_data calls
MaxSendCalls == 2
\* split_into_chunks: chunks per call of the length-level specification
MaxSplitChunks == 3
\* bin/server.rs: Init frames received in one session
MaxInits == 2
\* bin/server.rs: datagrams on the data queue before a sender waits
MaxDataQueue == 3
\* bin/server.rs: datagrams waiting at the socket, and retransmit tasks waiting
MaxSocket == 1

----------------------------------------------------------------------------
(* Helpers *)

Min(a, b) == IF a < b THEN a ELSE b
Max(a, b) == IF a > b THEN a ELSE b

Byte == 0..MaxByte

SeqsUpTo(S, n) == UNION {[1..k -> S] : k \in 0..n}

----------------------------------------------------------------------------
(* Idle values: what a subsystem's variables hold in the specifications of *)
(* the other subsystems.                                                   *)

NoCall == [called |-> FALSE]

SegIdle == seg = <<>> /\ seg_src = <<>> /\ seg_last = NoCall

CipherIdle == nonce_counter = <<>> /\ cipher_nonces = <<>>

CcIdle == cc = <<>> /\ cc_hist = <<>>

PmIdle ==
    /\ nics = <<>> /\ nic_stats = <<>>
    /\ pm_pc = "none" /\ pm_last = <<>> /\ pm_timer = FALSE

RxIdle ==
    /\ rx_encrypt = FALSE /\ recv_rx = <<>> /\ workers = <<>>
    /\ segment_chunks = <<>> /\ segment_total_chunks = <<>>
    /\ assembled_segments = {} /\ assembled_ch = <<>>
    /\ decrypted_segments = <<>> /\ rx_hist = <<>>

HsIdle == srv = <<>> /\ cli = <<>> /\ net = <<>> /\ srv_recv_rx = <<>>

XfIdle == xfer_in = <<>> /\ chunks_cache = <<>> /\ nack_ch = <<>> /\ received_data = <<>>

----------------------------------------------------------------------------
(* chunk.rs: Chunk, Segment, SegmentBuilder *)

\* crc32fast::hash abstracted as a positional checksum of the payload bytes
RECURSIVE crc32(_)
crc32(data) ==
    IF data = <<>> THEN 0
    ELSE (crc32(SubSeq(data, 1, Len(data) - 1)) * 31 + data[Len(data)] + 1) % 65521

\* Chunk::new: the header's crc32 and data_len are computed from the data
Chunk_new(segment_id, chunk_id, total_chunks, offset, segment_size, data, nic_id, is_redundant) ==
    [segment_id |-> segment_id, chunk_id |-> chunk_id, total_chunks |-> total_chunks,
     offset |-> offset, data_len |-> Len(data) % 65536, segment_size |-> segment_size,
     nic_id |-> nic_id, is_redundant |-> is_redundant, crc32 |-> crc32(data),
     data |-> data]

\* Chunk::verify_crc
verify_crc(chunk) == crc32(chunk.data) = chunk.crc32

\* SegmentBuilder::split_into_chunks, as a sequence of chunks (chunk i at index i+1)
split_into_chunks(chunk_size, segment_id, data, nic_id) ==
    LET total_chunks == (Len(data) + chunk_size - 1) \div chunk_size
    IN  [i \in 1..total_chunks |->
            Chunk_new(segment_id, i - 1, total_chunks, (i - 1) * chunk_size, Len(data),
                      SubSeq(data, (i - 1) * chunk_size + 1, Min(i * chunk_size, Len(data))),
                      nic_id, FALSE)]

\* Segment::new_for_receive
new_for_receive(id, total_size, total_chunks) ==
    [id |-> id,
     data |-> [i \in 1..total_size |-> 0],
     total_size |-> total_size,
     received_chunks |-> [i \in 1..total_chunks |-> FALSE],
     total_chunks |-> total_chunks,
     received_count |-> 0]

\* Segment::insert_chunk without the already-received test (a mutant)
insert_chunk_no_dup_check(s, chunk) ==
    IF chunk.chunk_id >= Len(s.received_chunks) \/ ~verify_crc(chunk)
    THEN [seg |-> s, ret |-> FALSE]
    ELSE [seg |-> [s EXCEPT !.received_chunks[chunk.chunk_id + 1] = TRUE,
                            !.received_count = @ + 1],
          ret |-> TRUE]

\* Segment::insert_chunk without the CRC check (a mutant)
insert_chunk_no_crc_check(s, chunk) ==
    IF chunk.chunk_id >= Len(s.received_chunks) \/ s.received_chunks[chunk.chunk_id + 1]
    THEN [seg |-> s, ret |-> FALSE]
    ELSE [seg |-> [s EXCEPT !.received_chunks[chunk.chunk_id + 1] = TRUE,
                            !.received_count = @ + 1],
          ret |-> TRUE]

\* Segment::insert_chunk: the segment after the call and the call's result
insert_chunk(s, chunk) ==
    IF chunk.chunk_id >= Len(s.received_chunks) \/ s.received_chunks[chunk.chunk_id + 1]
    THEN [seg |-> s, ret |-> FALSE]
    ELSE IF ~verify_crc(chunk)
    THEN [seg |-> s, ret |-> FALSE]
    ELSE LET offset == chunk.offset
             end == Min(offset + Len(chunk.data), s.total_size)
             copied == IF offset < s.total_size
                       THEN [i \in 1..s.total_size |->
                                IF i > offset /\ i <= end THEN chunk.data[i - offset]
                                ELSE s.data[i]]
                       ELSE s.data
         IN  [seg |-> [s EXCEPT !.data = copied,
                                !.received_chunks[chunk.chunk_id + 1] = TRUE,
                                !.received_count = @ + 1],
              ret |-> TRUE]

\* Segment::is_complete
is_complete(s) == s.received_count >= s.total_chunks

\* Segment::missing_chunk_ids
missing_chunk_ids(s) == {i - 1 : i \in {j \in 1..Len(s.received_chunks) : ~s.received_chunks[j]}}

\* Segment::into_data
into_data(s) == s.data

----------------------------------------------------------------------------
(* The codec specification: one segment is split by the sender and its     *)
(* chunks reach Segment::insert_chunk in any order, any number of times,   *)
(* together with damaged and out-of-range chunks.                          *)

SegFrame == <<CipherVars, CcVars, PmVars, RxVars, HsVars, XfVars>>

\* a chunk whose payload was altered after the header was written
Damaged(chunk) ==
    [chunk EXCEPT !.data = [i \in 1..Len(chunk.data) |->
                               IF i = 1 THEN (chunk.data[i] + 1) % (MaxByte + 1)
                               ELSE chunk.data[i]]]

SegSplit == split_into_chunks(seg_src.chunk_size, 1, seg_src.data, 0)

\* the chunks that insert_chunk is offered in this specification
SegPool ==
    LET orig == {SegSplit[i] : i \in 1..Len(SegSplit)}
    IN  orig
        \cup {[c EXCEPT !.is_redundant = TRUE] : c \in orig}
        \cup {Damaged(c) : c \in orig}
        \cup {[c EXCEPT !.chunk_id = c.total_chunks] : c \in orig}

SegInit ==
    /\ seg_src \in [data : SeqsUpTo(Byte, MaxSegLen), chunk_size : 1..MaxChunkSize]
    /\ seg = new_for_receive(1, Len(seg_src.data),
                             (Len(seg_src.data) + seg_src.chunk_size - 1) \div seg_src.chunk_size)
    /\ seg_last = NoCall
    /\ CipherIdle /\ CcIdle /\ PmIdle /\ RxIdle /\ HsIdle /\ XfIdle

SegInsert(chunk) ==
    LET r == insert_chunk(seg, chunk)
    IN  /\ seg' = r.seg
        /\ seg_last' = [called |-> TRUE, chunk |-> chunk, ret |-> r.ret, before |-> seg]
        /\ UNCHANGED <<seg_src, SegFrame>>

SegNext == \E chunk \in SegPool : SegInsert(chunk)

SpecSegment == SegInit /\ [][SegNext]_vars

\* Split then assemble: the chunks of split_into_chunks are inserted into a
\* fresh Segment in any order and any number of times; rx_hist records the
\* chunk ids inserted so far.
AsmFrame == <<CipherVars, CcVars, PmVars, rx_encrypt, recv_rx, workers, segment_chunks,
              segment_total_chunks, assembled_segments, assembled_ch, decrypted_segments,
              HsVars, XfVars>>

AsmInit ==
    /\ seg_src \in [data : SeqsUpTo(Byte, MaxSegLen), chunk_size : 1..MaxChunkSize]
    /\ seg = new_for_receive(1, Len(seg_src.data),
                             (Len(seg_src.data) + seg_src.chunk_size - 1) \div seg_src.chunk_size)
    /\ seg_last = NoCall
    /\ rx_hist = {}
    /\ rx_encrypt = FALSE /\ recv_rx = <<>> /\ workers = <<>>
    /\ segment_chunks = <<>> /\ segment_total_chunks = <<>>
    /\ assembled_segments = {} /\ assembled_ch = <<>> /\ decrypted_segments = <<>>
    /\ CipherIdle /\ CcIdle /\ PmIdle /\ HsIdle /\ XfIdle

\* Segment::insert_chunk of chunk i of the split
AsmInsert(i) ==
    /\ i \in 1..Len(SegSplit)
    /\ LET r == insert_chunk(seg, SegSplit[i])
       IN  /\ seg' = r.seg
           /\ seg_last' = [called |-> TRUE, chunk |-> SegSplit[i], ret |-> r.ret,
                           before |-> seg]
    /\ rx_hist' = rx_hist \cup {SegSplit[i].chunk_id}
    /\ UNCHANGED <<seg_src, AsmFrame>>

AsmNext == \E i \in 1..MaxSegLen : AsmInsert(i)

SpecAssemble == AsmInit /\ [][AsmNext]_vars

AsmAllIds == {SegSplit[i].chunk_id : i \in 1..Len(SegSplit)}

\* C20: split then assemble is the identity. Once every chunk of the split has
\* been inserted, in whatever order and however often, is_complete() is true
\* and into_data() is the data that was split; while a chunk is still missing
\* is_complete() is false.
C20_SplitAssembleIdentity ==
    /\ rx_hist = AsmAllIds => (is_complete(seg) /\ into_data(seg) = seg_src.data)
    /\ rx_hist # AsmAllIds => ~is_complete(seg)

\* C20 witness: a segment of several chunks with a short last chunk and a
\* non-zero payload is complete after a chunk was inserted again
C20_Witness ==
    /\ Len(SegSplit) >= 2
    /\ Len(seg_src.data) % seg_src.chunk_size # 0
    /\ \E i \in 1..Len(seg_src.data) : seg_src.data[i] # 0
    /\ rx_hist = AsmAllIds
    /\ seg_last.called /\ seg_last.ret = FALSE
    /\ is_complete(seg) /\ into_data(seg) = seg_src.data


\* the buffer that the set of accepted chunk ids determines: the source bytes where
\* the covering chunk was accepted, the zero fill elsewhere
SegBufferOfAccepted ==
    [i \in 1..Len(seg_src.data) |->
        IF seg.received_chunks[((i - 1) \div seg_src.chunk_size) + 1]
        THEN seg_src.data[i] ELSE 0]

SegAlreadyAccepted(s, chunk) ==
    chunk.chunk_id < Len(s.received_chunks) /\ s.received_chunks[chunk.chunk_id + 1]

\* C3: insert_chunk is idempotent per chunk. A chunk whose chunk_id was already
\* accepted is refused (false) and leaves the segment as it was; no call lowers
\* received_count; and the buffer is a function of the set of accepted chunk ids
\* alone, so it does not depend on how often or in which order the chunks came.
C3_InsertIdempotent ==
    /\ seg.data = SegBufferOfAccepted
    /\ seg_last.called =>
          /\ seg.received_count >= seg_last.before.received_count
          /\ SegAlreadyAccepted(seg_last.before, seg_last.chunk) =>
                (seg_last.ret = FALSE /\ seg = seg_last.before)

\* C3 witness: a complete multi-chunk segment is offered an intact copy of a chunk
\* it already holds
C3_Witness ==
    /\ seg_last.called
    /\ seg.total_chunks >= 2
    /\ is_complete(seg)
    /\ verify_crc(seg_last.chunk)
    /\ SegAlreadyAccepted(seg_last.before, seg_last.chunk)

SegSetBits(s) == {j \in 1..Len(s.received_chunks) : s.received_chunks[j]}

\* C22: insert_chunk returns false and leaves buffer, bitmap and received_count
\* as they were for a chunk whose chunk_id >= total_chunks, whose id was already
\* accepted or whose CRC check fails; any other chunk is accepted, sets exactly
\* its own bit and adds exactly 1. So received_count is the number of set bits
\* and is_complete() holds iff missing_chunk_ids() is empty.
C22_InsertRejectsOrCounts ==
    /\ seg_last.called =>
          LET chunk == seg_last.chunk
              before == seg_last.before
              refused == \/ chunk.chunk_id >= before.total_chunks
                         \/ SegAlreadyAccepted(before, chunk)
                         \/ ~verify_crc(chunk)
          IN  /\ refused => (seg_last.ret = FALSE /\ seg = before)
              /\ ~refused =>
                    /\ seg_last.ret = TRUE
                    /\ seg.received_count = before.received_count + 1
                    /\ SegSetBits(seg) = SegSetBits(before) \cup {chunk.chunk_id + 1}
                    /\ chunk.chunk_id + 1 \notin SegSetBits(before)
    /\ seg.received_count = Cardinality(SegSetBits(seg))
    /\ is_complete(seg) <=> missing_chunk_ids(seg) = {}

\* C22 witness: a segment that holds one chunk and misses another has refused a
\* chunk whose CRC check fails
C22_Witness ==
    /\ seg_last.called
    /\ ~verify_crc(seg_last.chunk)
    /\ seg_last.chunk.chunk_id < seg.total_chunks
    /\ ~SegAlreadyAccepted(seg_last.before, seg_last.chunk)
    /\ seg_last.ret = FALSE
    /\ seg.received_count >= 1
    /\ ~is_complete(seg)


----------------------------------------------------------------------------
(* crypto.rs: SegmentCipher nonce generation                               *)

\* one 16-bit limb
U16 == 256 * 256

\* SegmentCipher::new: nonce_counter = 0
counter_zero == [lo |-> 0, mid |-> 0, hi |-> 0]

\* u64 addition of dmid * 2^16 + dlo, for dlo, dmid < 2^16
counter_add(c, dmid, dlo) ==
    LET lo == c.lo + dlo
        mid == c.mid + dmid + (lo \div U16)
    IN  [lo |-> lo % U16, mid |-> mid % U16, hi |-> c.hi + (mid \div U16)]

\* `self.nonce_counter as u32`: the low 32 bits
as_u32(c) == <<c.lo, c.mid>>

\* SegmentCipher::generate_nonce: the 12-byte nonce (8 bytes of segment id, 4 bytes
\* of truncated counter; both little-endian encodings are injective) and the
\* counter after the call
generate_nonce(counter, segment_id) ==
    [nonce |-> [segment_id |-> segment_id, counter |-> as_u32(counter)],
     counter |-> counter_add(counter, 0, 1)]

CipherFrame == <<SegVars, CcVars, PmVars, RxVars, HsVars, XfVars>>

CipherInit ==
    /\ nonce_counter = counter_zero
    /\ cipher_nonces = <<>>
    /\ SegIdle /\ CcIdle /\ PmIdle /\ RxIdle /\ HsIdle /\ XfIdle

\* SegmentCipher::encrypt_segment, as far as the nonce goes
EncryptSegment(segment_id) ==
    LET g == generate_nonce(nonce_counter, segment_id)
    IN  /\ Len(cipher_nonces) < MaxSealCalls
        /\ nonce_counter.hi < MaxCounterHigh
        /\ cipher_nonces' = Append(cipher_nonces, g.nonce)
        /\ nonce_counter' = g.counter
        /\ UNCHANGED CipherFrame

\* 2^32 - 1 consecutive encrypt_segment calls whose nonces are not recorded: each
\* of them adds 1 to nonce_counter
EncryptBurst ==
    /\ nonce_counter.hi < MaxCounterHigh
    /\ nonce_counter' = counter_add(nonce_counter, U16 - 1, U16 - 1)
    /\ UNCHANGED <<cipher_nonces, CipherFrame>>

CipherNext ==
    \/ \E segment_id \in 1..MaxCipherSegId : EncryptSegment(segment_id)
    \/ EncryptBurst

SpecCipher == CipherInit /\ [][CipherNext]_vars

\* C8: within one SegmentCipher session no two encrypt_segment calls use the same
\* 12-byte nonce, whatever the segment ids and however many calls were made.
C8_NoncesDistinct ==
    \A i, j \in 1..Len(cipher_nonces) : i # j => cipher_nonces[i] # cipher_nonces[j]

----------------------------------------------------------------------------
(* large_file_test.rs: CongestionControl (TCP-like slow start and          *)
(* congestion avoidance), rates in bytes per second                        *)

MiB == 1024 * 1024

\* the clamp of on_feedback: 50 MB/s .. 1 GB/s
MinRate == 50 * MiB
MaxRate == 1024 * MiB

\* a clamp that leaves out the upper limit (a mutant)
clamp_lower_only(x, lo, hi) == IF x < lo THEN lo ELSE x

clamp(x, lo, hi) == IF x < lo THEN lo ELSE IF x > hi THEN hi ELSE x

RECURSIVE Pow10(_)
Pow10(k) == IF k = 0 THEN 1 ELSE 10 * Pow10(k - 1)

\* floor(a * 10^k / d), evaluated digit by digit so that no intermediate value
\* leaves the range of the model checker's integers (the code computes in u128)
RECURSIVE MulPow10Div(_, _, _)
MulPow10Div(a, k, d) ==
    IF k = 0 THEN a \div d
    ELSE (a \div d) * Pow10(k) + MulPow10Div((a % d) * 10, k - 1, d)

\* `received_bytes as u128 * 1_000_000 / elapsed_us as u128`
measured_of(received_bytes, elapsed_us) == MulPow10Div(received_bytes, 6, elapsed_us)

\* `self.send_rate * 70 / 100`, i.e. floor(7 * send_rate / 10)
loss_threshold(send_rate) == 7 * (send_rate \div 10) + (7 * (send_rate % 10)) \div 10

\* CongestionControl::new
CongestionControl_new ==
    [send_rate |-> 50 * MiB, measured_rate |-> 0, ssthresh |-> 500 * MiB,
     in_slow_start |-> TRUE, initialized |-> FALSE]

\* CongestionControl::set_initial_rate; rate_mbps is the integral part of the f32
set_initial_rate(c, rate_mbps) ==
    IF ~c.initialized
    THEN LET send_rate == clamp(rate_mbps * MiB, 50 * MiB, 500 * MiB)
         IN  [c EXCEPT !.send_rate = send_rate, !.ssthresh = send_rate * 2,
                       !.initialized = TRUE]
    ELSE c

\* on_feedback whose loss branch lowers the threshold but keeps the rate (a mutant)
on_feedback_no_backoff(c, received_bytes, elapsed_us) ==
    IF elapsed_us = 0 \/ received_bytes = 0 THEN c
    ELSE LET measured == measured_of(received_bytes, elapsed_us)
         IN  IF measured < loss_threshold(c.send_rate)
             THEN [c EXCEPT !.measured_rate = measured, !.ssthresh = c.send_rate \div 2,
                            !.in_slow_start = FALSE]
             ELSE [c EXCEPT !.measured_rate = measured,
                            !.send_rate = clamp(c.send_rate + 50 * MiB, MinRate, MaxRate)]

\* CongestionControl::on_feedback
on_feedback(c, received_bytes, elapsed_us) ==
    IF elapsed_us = 0 \/ received_bytes = 0 THEN c
    ELSE LET measured == measured_of(received_bytes, elapsed_us)
             loss_detected == measured < loss_threshold(c.send_rate)
             stepped ==
                 IF loss_detected
                 THEN [c EXCEPT !.ssthresh = c.send_rate \div 2,
                                !.send_rate = c.send_rate \div 2,
                                !.in_slow_start = FALSE]
                 ELSE IF c.in_slow_start
                 THEN IF c.send_rate * 2 >= c.ssthresh
                      THEN [c EXCEPT !.send_rate = c.ssthresh, !.in_slow_start = FALSE]
                      ELSE [c EXCEPT !.send_rate = c.send_rate * 2]
                 ELSE [c EXCEPT !.send_rate = c.send_rate + 50 * MiB]
         IN  [stepped EXCEPT !.measured_rate = measured,
                             !.send_rate = clamp(stepped.send_rate, MinRate, MaxRate)]

\* the arguments on_feedback is called with: the bytes of 0, 1, 600 or 3000
\* segments of 55 chunks of 1200 bytes (run_server's delivered_bytes), over no time
\* or over 100 ms
CcReceivedBytes == {n * 1200 * 55 : n \in {0, 1, 600, 3000}}
CcElapsedUs == {0, 100000}
\* the bandwidth hints of the first FlowControl, in MB/s
CcRateHints == {30, 120, 600}

CcFrame == <<SegVars, CipherVars, PmVars, RxVars, HsVars, XfVars>>

CcInit ==
    /\ cc = CongestionControl_new
    /\ cc_hist = <<>>
    /\ SegIdle /\ CipherIdle /\ PmIdle /\ RxIdle /\ HsIdle /\ XfIdle

\* run_server seeds the rate before any feedback is applied
CcSetInitialRate(rate_mbps) ==
    /\ cc_hist = <<>>
    /\ ~cc.initialized
    /\ cc' = set_initial_rate(cc, rate_mbps)
    /\ UNCHANGED <<cc_hist, CcFrame>>

CcOnFeedback(received_bytes, elapsed_us) ==
    /\ Len(cc_hist) < MaxFeedbacks
    /\ cc' = on_feedback(cc, received_bytes, elapsed_us)
    /\ cc_hist' = Append(cc_hist, [received_bytes |-> received_bytes,
                                   elapsed_us |-> elapsed_us, before |-> cc])
    /\ UNCHANGED CcFrame

CcNext ==
    \/ \E rate_mbps \in CcRateHints : CcSetInitialRate(rate_mbps)
    \/ \E received_bytes \in CcReceivedBytes, elapsed_us \in CcElapsedUs :
          CcOnFeedback(received_bytes, elapsed_us)

SpecCC == CcInit /\ [][CcNext]_vars

\* the state after the i-th recorded on_feedback call
CcAfter(i) == IF i = Len(cc_hist) THEN cc ELSE cc_hist[i + 1].before

\* the i-th call reports a measured rate below 70% of the rate before it
CcReportsLoss(i) ==
    /\ cc_hist[i].elapsed_us > 0
    /\ measured_of(cc_hist[i].received_bytes, cc_hist[i].elapsed_us)
          < loss_threshold(cc_hist[i].before.send_rate)

CcLossStep(i) ==
    LET R == cc_hist[i].before.send_rate
        after == CcAfter(i).send_rate
    IN  IF cc_hist[i].received_bytes = 0
        THEN after = R
        ELSE /\ after = Max(R \div 2, MinRate)
             /\ R > MinRate => after < R
             /\ R = MinRate => after = MinRate

CcReportsNoLoss(i) ==
    /\ cc_hist[i].elapsed_us > 0 /\ cc_hist[i].received_bytes > 0
    /\ measured_of(cc_hist[i].received_bytes, cc_hist[i].elapsed_us)
          >= loss_threshold(cc_hist[i].before.send_rate)

\* C28: each feedback whose measured rate is below 0.7 R, an interval in which
\* zero bytes were delivered included, declares loss: ssthresh becomes R/2,
\* send_rate becomes ssthresh (then clamped) and in_slow_start becomes false.
C28_LowRateDeclaresLoss ==
    \A i \in 1..Len(cc_hist) :
        CcReportsLoss(i) =>
            LET R == cc_hist[i].before.send_rate
            IN  /\ CcAfter(i).ssthresh = R \div 2
                /\ CcAfter(i).send_rate = clamp(R \div 2, MinRate, MaxRate)
                /\ ~CcAfter(i).in_slow_start

\* C29: a feedback with measured >= 0.7 R doubles send_rate while in slow start,
\* and as soon as the doubled value reaches ssthresh sets it to ssthresh and ends
\* slow start; slow start, once ended, is never re-entered, and each further
\* such feedback raises send_rate by exactly 50 MiB/s until the upper clamp.
C29_SlowStartThenLinear ==
    \A i \in 1..Len(cc_hist) :
        LET before == cc_hist[i].before
            after == CcAfter(i)
        IN  /\ ~before.in_slow_start => ~after.in_slow_start
            /\ CcReportsNoLoss(i) =>
                   IF before.in_slow_start
                   THEN IF 2 * before.send_rate >= before.ssthresh
                        THEN after.send_rate = before.ssthresh /\ ~after.in_slow_start
                        ELSE after.send_rate = 2 * before.send_rate /\ after.in_slow_start
                   ELSE after.send_rate = Min(before.send_rate + 50 * MiB, MaxRate)

\* C29 witness: a feedback ends slow start at ssthresh, and the next one raises
\* the rate by 50 MiB/s
C29_Witness ==
    \E i \in 1..(Len(cc_hist) - 1) :
        /\ CcReportsNoLoss(i) /\ CcReportsNoLoss(i + 1)
        /\ cc_hist[i].before.in_slow_start /\ ~CcAfter(i).in_slow_start
        /\ CcAfter(i).send_rate = cc_hist[i].before.ssthresh
        /\ CcAfter(i + 1).send_rate = CcAfter(i).send_rate + 50 * MiB

\* C30: in every reachable state of CongestionControl the pacing target
\* satisfies 50 MiB/s <= send_rate <= 1 GiB/s.
C30_RateWithinClamp == cc.send_rate >= 50 * MiB /\ cc.send_rate <= 1024 * MiB

\* C30 witness: a feedback without loss would have raised the rate beyond
\* 1 GiB/s and left it at 1 GiB/s
C30_Witness ==
    \E i \in 1..Len(cc_hist) :
        /\ CcReportsNoLoss(i) /\ ~cc_hist[i].before.in_slow_start
        /\ cc_hist[i].before.send_rate + 50 * MiB > 1024 * MiB
        /\ CcAfter(i).send_rate = 1024 * MiB


----------------------------------------------------------------------------
(* multipath.rs PathManager and stats.rs NicStats.  The f64 ratios are     *)
(* exact rationals <<numerator, denominator>> in lowest terms.            *)

RECURSIVE GCD(_, _)
GCD(a, b) == IF b = 0 THEN a ELSE GCD(b, a % b)

Rat(n, d) == LET g == GCD(n, d) IN << n \div g, d \div g >>
RZero == << 0, 1 >>
ROne == << 1, 1 >>
RAdd(x, y) == Rat(x[1] * y[2] + y[1] * x[2], x[2] * y[2])
RMul(x, y) == Rat(x[1] * y[1], x[2] * y[2])
RDiv(x, y) == Rat(x[1] * y[2], x[2] * y[1])
RLess(x, y) == x[1] * y[2] < y[1] * x[2]

RECURSIVE RSum(_, _)
\* the sum of f[i] over the indices i in S
RSum(f, S) ==
    IF S = {} THEN RZero
    ELSE LET i == CHOOSE j \in S : TRUE IN RAdd(f[i], RSum(f, S \ {i}))

\* NicStats::new; while fewer chunks than the window size have arrived,
\* arrivals.len() is total_chunks, window_bytes the sum of their sizes and
\* window_ms the time from the first to the last arrival
NicStats_new == [total_chunks |-> 0, window_bytes |-> 0, window_ms |-> 0, lost_chunks |-> 0]

\* NicStats::record_arrival, dt the milliseconds since this NIC's previous arrival
record_arrival(st, size, dt) ==
    [st EXCEPT !.total_chunks = @ + 1,
               !.window_bytes = @ + size,
               !.window_ms = IF st.total_chunks = 0 THEN 0 ELSE @ + dt]

\* NicStats::record_loss
record_loss(st, count) == [st EXCEPT !.lost_chunks = @ + count]

\* NicStats::throughput, bytes per second
throughput(st) ==
    IF st.total_chunks < 2 THEN RZero
    ELSE IF st.window_ms = 0 THEN RZero
    ELSE Rat(st.window_bytes * 1000, st.window_ms)

\* NicStats::loss_rate
loss_rate(st) ==
    LET total == st.total_chunks + st.lost_chunks
    IN  IF total = 0 THEN RZero ELSE Rat(st.lost_chunks, total)

\* 1.0 - loss_rate
one_minus(x) == Rat(x[2] - x[1], x[2])

\* NicInfo::new
NicInfo_new == [ratio |-> ROne, active |-> TRUE]

ActiveNics(ns) == {i \in 1..Len(ns) : ns[i].active}

\* PathManager::equalize_ratios
equalize_ratios(ns) ==
    LET active_count == Cardinality(ActiveNics(ns))
    IN  IF active_count = 0 THEN ns
        ELSE [i \in 1..Len(ns) |->
                 IF ns[i].active THEN [ns[i] EXCEPT !.ratio = Rat(1, active_count)]
                 ELSE [ns[i] EXCEPT !.ratio = RZero]]

\* `throughputs.iter().sum()`, over every NIC that has statistics
total_throughput(sts) == RSum([i \in 1..Len(sts) |-> throughput(sts[i])], 1..Len(sts))

\* the first loop of adjust_ratios over the NICs 1..upto
throughput_ratios(ns, sts, upto) ==
    [i \in 1..Len(ns) |->
        IF i <= upto /\ ns[i].active
        THEN [ns[i] EXCEPT !.ratio = RDiv(RMul(throughput(sts[i]), one_minus(loss_rate(sts[i]))),
                                          total_throughput(sts))]
        ELSE ns[i]]

\* the second loop of adjust_ratios: the floor of 0.1 / active_count
apply_min_ratio(ns) ==
    LET active_count == Cardinality(ActiveNics(ns))
    IN  [i \in 1..Len(ns) |->
            IF ns[i].active /\ RLess(ns[i].ratio, Rat(1, 10 * active_count))
            THEN [ns[i] EXCEPT !.ratio = Rat(1, 10 * active_count)]
            ELSE ns[i]]

\* the third loop of adjust_ratios: division by the sum over the active NICs
normalize(ns) ==
    LET total == RSum([i \in 1..Len(ns) |-> ns[i].ratio], ActiveNics(ns))
    IN  IF RLess(RZero, total)
        THEN [i \in 1..Len(ns) |->
                 IF ns[i].active THEN [ns[i] EXCEPT !.ratio = RDiv(@, total)] ELSE ns[i]]
        ELSE ns

\* adjust_ratios without its last loop (a mutant)
adjust_ratios_unnormalized(ns, sts) ==
    IF RLess(RZero, total_throughput(sts))
    THEN apply_min_ratio(throughput_ratios(ns, sts, Len(ns)))
    ELSE ns

\* PathManager::adjust_ratios once the adjust interval has passed, with statistics
\* for every NIC
adjust_ratios(ns, sts) ==
    IF RLess(RZero, total_throughput(sts))
    THEN normalize(apply_min_ratio(throughput_ratios(ns, sts, Len(ns))))
    ELSE ns

\* adjust_ratios panics at `stats[i]` when an active NIC has no statistics yet
adjust_ratios_panics(ns, sts) ==
    /\ RLess(RZero, total_throughput(sts))
    /\ \E i \in ActiveNics(ns) : i > Len(sts)

PmChunkSizes == {1200}
PmArrivalGapsMs == {0, 1}

PmIdlePc == [op |-> "idle", step |-> "idle"]
PmStep(op, returned, recomputed) == [op |-> op, returned |-> returned, recomputed |-> recomputed]

PmFrame == <<SegVars, CipherVars, CcVars, RxVars, HsVars, XfVars>>

PmInit ==
    /\ nics = <<>>
    /\ nic_stats = <<>>
    /\ pm_pc = PmIdlePc
    /\ pm_last = PmStep("new", TRUE, FALSE)
    /\ pm_timer = TRUE
    /\ SegIdle /\ CipherIdle /\ CcIdle /\ RxIdle /\ HsIdle /\ XfIdle

\* add_nic: `nics.push(NicInfo::new(..))`
PmAddNicPush ==
    /\ pm_pc = PmIdlePc
    /\ Len(nics) < MaxNics
    /\ nics' = Append(nics, NicInfo_new)
    /\ pm_pc' = [op |-> "add_nic", step |-> "stats"]
    /\ pm_last' = PmStep("add_nic", FALSE, FALSE)
    /\ UNCHANGED <<nic_stats, pm_timer, PmFrame>>

\* add_nic: `stats.push(NicStats::new(..))`
PmAddNicStats ==
    /\ pm_pc = [op |-> "add_nic", step |-> "stats"]
    /\ nic_stats' = Append(nic_stats, NicStats_new)
    /\ pm_pc' = [op |-> "add_nic", step |-> "equalize"]
    /\ UNCHANGED <<nics, pm_last, pm_timer, PmFrame>>

\* deactivate_nic up to `drop(nics)`
PmDeactivateNic(nic_id) ==
    /\ pm_pc = PmIdlePc
    /\ nics' = IF nic_id < Len(nics)
               THEN [nics EXCEPT ![nic_id + 1] = [ratio |-> RZero, active |-> FALSE]]
               ELSE nics
    /\ pm_pc' = [op |-> "deactivate_nic", step |-> "equalize"]
    /\ pm_last' = PmStep("deactivate_nic", FALSE, FALSE)
    /\ UNCHANGED <<nic_stats, pm_timer, PmFrame>>

\* activate_nic up to `drop(nics)`
PmActivateNic(nic_id) ==
    /\ pm_pc = PmIdlePc
    /\ nics' = IF nic_id < Len(nics)
               THEN [nics EXCEPT ![nic_id + 1].active = TRUE]
               ELSE nics
    /\ pm_pc' = [op |-> "activate_nic", step |-> "equalize"]
    /\ pm_last' = PmStep("activate_nic", FALSE, FALSE)
    /\ UNCHANGED <<nic_stats, pm_timer, PmFrame>>

\* the closing `self.equalize_ratios()` of add_nic, activate_nic and deactivate_nic
PmEqualize ==
    /\ pm_pc.step = "equalize"
    /\ nics' = equalize_ratios(nics)
    /\ pm_pc' = PmIdlePc
    /\ pm_last' = PmStep(pm_pc.op, TRUE, FALSE)
    /\ UNCHANGED <<nic_stats, pm_timer, PmFrame>>

PmArrivals == RSum([i \in 1..Len(nic_stats) |-> Rat(nic_stats[i].total_chunks, 1)],
                   1..Len(nic_stats))[1]
PmLost == RSum([i \in 1..Len(nic_stats) |-> Rat(nic_stats[i].lost_chunks, 1)],
               1..Len(nic_stats))[1]

\* record_chunk_arrival
PmRecordChunkArrival(nic_id, size, dt) ==
    /\ PmArrivals < MaxArrivals
    /\ nic_id < Len(nic_stats)
    /\ nic_stats' = [nic_stats EXCEPT ![nic_id + 1] = record_arrival(@, size, dt)]
    /\ UNCHANGED <<nics, pm_pc, pm_last, pm_timer, PmFrame>>

\* PathManager::record_loss
PmRecordLoss(nic_id, count) ==
    /\ PmLost + count <= MaxLost
    /\ nic_id < Len(nic_stats)
    /\ nic_stats' = [nic_stats EXCEPT ![nic_id + 1] = record_loss(@, count)]
    /\ UNCHANGED <<nics, pm_pc, pm_last, pm_timer, PmFrame>>

\* the periodic adjust_ratios, which may run between the two lock scopes of the
\* other operations; interval_elapsed is its check against last_ratio_adjust
PmAdjustRatios(interval_elapsed) ==
    /\ pm_timer
    /\ IF ~interval_elapsed
       THEN UNCHANGED <<nics, pm_last, pm_timer>>
       ELSE IF adjust_ratios_panics(nics, nic_stats)
       THEN /\ nics' = throughput_ratios(nics, nic_stats, Len(nic_stats))
            /\ pm_last' = PmStep("adjust_ratios", FALSE, FALSE)
            /\ pm_timer' = FALSE
       ELSE /\ nics' = adjust_ratios(nics, nic_stats)
            /\ pm_last' = PmStep("adjust_ratios", TRUE, RLess(RZero, total_throughput(nic_stats)))
            /\ UNCHANGED pm_timer
    /\ UNCHANGED <<nic_stats, pm_pc, PmFrame>>

PmNext ==
    \/ PmAddNicPush
    \/ PmAddNicStats
    \/ \E nic_id \in 0..MaxNics : PmDeactivateNic(nic_id)
    \/ \E nic_id \in 0..MaxNics : PmActivateNic(nic_id)
    \/ PmEqualize
    \/ \E nic_id \in 0..(MaxNics - 1), size \in PmChunkSizes, dt \in PmArrivalGapsMs :
          PmRecordChunkArrival(nic_id, size, dt)
    \/ \E nic_id \in 0..(MaxNics - 1) : PmRecordLoss(nic_id, 1)
    \/ \E interval_elapsed \in BOOLEAN : PmAdjustRatios(interval_elapsed)

SpecPath == PmInit /\ [][PmNext]_vars

PmActiveSum == RSum([i \in 1..Len(nics) |-> nics[i].ratio], ActiveNics(nics))

\* C10: once add_nic, activate_nic or deactivate_nic has returned, and once an
\* adjust_ratios that recomputed the weights has returned, the ratios of the active
\* NICs sum to 1 whenever at least one NIC is active.
C10_ActiveRatiosSumToOne ==
    /\ (pm_pc = PmIdlePc /\ ActiveNics(nics) # {}) => PmActiveSum = ROne
    /\ (pm_last = PmStep("adjust_ratios", TRUE, TRUE) /\ ActiveNics(nics) # {})
           => PmActiveSum = ROne

\* C10 witness: an adjust_ratios has recomputed unequal weights for two active NICs
C10_Witness ==
    /\ pm_last = PmStep("adjust_ratios", TRUE, TRUE)
    /\ \E i, j \in ActiveNics(nics) : RLess(nics[i].ratio, nics[j].ratio)
    /\ \E i \in ActiveNics(nics) : nic_stats[i].lost_chunks > 0 /\ RLess(RZero, throughput(nic_stats[i]))
    /\ PmActiveSum = ROne

\* C11: once an adjust_ratios that recomputed the weights (total throughput > 0)
\* has returned, the ratio of every active NIC is at least 0.1 / active_count.
C11_ActiveRatioAtLeastMin ==
    pm_last = PmStep("adjust_ratios", TRUE, TRUE) =>
        \A i \in ActiveNics(nics) :
            ~RLess(nics[i].ratio, Rat(1, 10 * Cardinality(ActiveNics(nics))))

----------------------------------------------------------------------------
(* large_file_test.rs run_client: the worker pool and assemble_task.       *)
(* Datagrams reach recv_rx from the receive task; each worker takes one,   *)
(* parses it, stores the chunk and checks the segment for completion.      *)

\* Chunk::to_bytes: length-prefixed header followed by the data
Chunk_to_bytes(chunk) ==
    [frame |-> "chunk",
     header |-> [f \in DOMAIN chunk \ {"data"} |-> chunk[f]],
     data |-> chunk.data]

\* a datagram that is not a chunk (too short, or the header does not deserialize)
NotAChunk == [frame |-> "other"]

\* Chunk::from_bytes; the data is whatever follows the header
Chunk_from_bytes(bytes) ==
    IF bytes.frame = "chunk"
    THEN [parsed |-> TRUE, chunk |-> bytes.header @@ [data |-> bytes.data]]
    ELSE [parsed |-> FALSE]

\* SegmentCipher::encrypt_segment on the byte level: the nonce, the ciphertext and
\* the tag; nonce and tag are one element each, the keystream adds one to a byte
seal(segment_id, plaintext) ==
    <<segment_id>> \o [i \in 1..Len(plaintext) |-> plaintext[i] + 1]
                   \o <<crc32(<<segment_id>> \o plaintext)>>

\* SegmentCipher::decrypt_segment of an ideal AEAD: only a byte string that
\* encrypt_segment produced under this key opens
decrypt(genuine, encrypted) ==
    IF Len(encrypted) < 2 THEN [ok |-> FALSE]
    ELSE IF encrypted \in genuine
    THEN [ok |-> TRUE,
          plaintext |-> [i \in 1..(Len(encrypted) - 2) |->
                            encrypted[i + 1] - 1]]
    ELSE [ok |-> FALSE]

\* `mpsc::channel::<(u64, Vec<u8>)>(1000)`
assembled_capacity == 1000

\* the chunk ids stored for a segment
StoredIds(chunks, segment_id) == {k[2] : k \in {j \in DOMAIN chunks : j[1] = segment_id}}

RECURSIVE ConcatStored(_, _, _, _)
\* the worker's assembly loop `for i in 0..total_chunks`, from chunk id i on
ConcatStored(chunks, segment_id, i, total_chunks) ==
    IF i >= total_chunks THEN <<>>
    ELSE (IF <<segment_id, i>> \in DOMAIN chunks THEN chunks[<<segment_id, i>>] ELSE <<>>)
         \o ConcatStored(chunks, segment_id, i + 1, total_chunks)

WorkerIdle == [pc |-> "recv"]

\* `totals.insert(chunk.segment_id, chunk.total_chunks)`
record_total(totals, chunk) ==
    [s \in DOMAIN totals \cup {chunk.segment_id} |->
        IF s = chunk.segment_id THEN chunk.total_chunks ELSE totals[s]]

\* `if !segment.contains_key(&chunk.chunk_id) { segment.insert(..) }`
store_chunk(chunks, chunk) ==
    LET key == <<chunk.segment_id, chunk.chunk_id>>
    IN  IF key \notin DOMAIN chunks
        THEN [k \in DOMAIN chunks \cup {key} |-> IF k = key THEN chunk.data ELSE chunks[k]]
        ELSE chunks

\* the rest of the locked section, on the map after the store: the segment bytes
\* when every chunk seems there and the segment is not marked, else nothing
after_store(chunks, assembled, chunk) ==
    IF /\ Cardinality(StoredIds(chunks, chunk.segment_id)) >= chunk.total_chunks
       /\ chunk.segment_id \notin assembled
    THEN [pc |-> "mark", chunk |-> chunk,
          segment_data |-> ConcatStored(chunks, chunk.segment_id, 0, chunk.total_chunks)]
    ELSE WorkerIdle

\* a worker takes the next datagram, parses it and records its total_chunks
WorkerRecv(w) ==
    /\ workers[w].pc = "recv"
    /\ recv_rx # <<>>
    /\ recv_rx' = Tail(recv_rx)
    /\ LET r == Chunk_from_bytes(Head(recv_rx))
       IN  IF r.parsed
           THEN /\ workers' = [workers EXCEPT ![w] = [pc |-> "store", chunk |-> r.chunk]]
                /\ segment_total_chunks' = record_total(segment_total_chunks, r.chunk)
           ELSE UNCHANGED <<workers, segment_total_chunks>>
    /\ UNCHANGED <<rx_encrypt, segment_chunks, assembled_segments, assembled_ch,
                   decrypted_segments>>

\* under the chunk map's write lock: store unless present, test for completion
\* and for the assembled mark, build the segment bytes
WorkerStore(w) ==
    /\ workers[w].pc = "store"
    /\ LET chunk == workers[w].chunk
           chunks == store_chunk(segment_chunks, chunk)
       IN  /\ segment_chunks' = chunks
           /\ workers' = [workers EXCEPT ![w] = after_store(chunks, assembled_segments, chunk)]
    /\ UNCHANGED <<rx_encrypt, recv_rx, segment_total_chunks, assembled_segments,
                   assembled_ch, decrypted_segments>>

\* after the lock is dropped: mark the segment assembled and hand it over with
\* `assembled_tx.try_send`, on a channel of the given capacity
WorkerMarkAt(w, capacity) ==
    /\ workers[w].pc = "mark"
    /\ LET segment_id == workers[w].chunk.segment_id
       IN  /\ assembled_segments' = assembled_segments \cup {segment_id}
           /\ assembled_ch' = IF Len(assembled_ch) < capacity
                              THEN Append(assembled_ch, <<segment_id, workers[w].segment_data>>)
                              ELSE assembled_ch
    /\ workers' = [workers EXCEPT ![w] = WorkerIdle]
    /\ UNCHANGED <<rx_encrypt, recv_rx, segment_chunks, segment_total_chunks,
                   decrypted_segments>>

WorkerMark(w) == WorkerMarkAt(w, assembled_capacity)

\* one iteration of assemble_task; genuine is the set of byte strings the sender's
\* session has sealed
Assemble(genuine) ==
    /\ assembled_ch # <<>>
    /\ LET segment_id == Head(assembled_ch)[1]
           segment_data == Head(assembled_ch)[2]
           opened == decrypt(genuine, segment_data)
           final_data == IF rx_encrypt
                         THEN (IF opened.ok THEN opened.plaintext ELSE segment_data)
                         ELSE segment_data
       IN  /\ decrypted_segments' =
                  [s \in DOMAIN decrypted_segments \cup {segment_id} |->
                      IF s = segment_id THEN final_data ELSE decrypted_segments[s]]
    /\ assembled_ch' = Tail(assembled_ch)
    /\ UNCHANGED <<rx_encrypt, recv_rx, workers, segment_chunks, segment_total_chunks,
                   assembled_segments>>

RxHistInit ==
    [taken |-> 0, crc_failed_stored |-> {}, marked_total |-> <<>>, handed |-> <<>>,
     assemble |-> [called |-> FALSE]]

\* the record of what the receiver did (rx_hist), kept beside each step: datagrams
\* taken, keys stored although the CRC fails, the total_chunks each mark relied
\* on, the segment ids put on the assembled channel, and the last call of
\* assemble_task
RxHistRecv(w) == rx_hist' = [rx_hist EXCEPT !.taken = @ + 1]

RxHistStore(w) ==
    LET chunk == workers[w].chunk
        key == <<chunk.segment_id, chunk.chunk_id>>
    IN  rx_hist' = IF key \notin DOMAIN segment_chunks /\ ~verify_crc(chunk)
                   THEN [rx_hist EXCEPT !.crc_failed_stored = @ \cup {key}]
                   ELSE rx_hist

RxHistMarkAt(w, capacity) ==
    LET segment_id == workers[w].chunk.segment_id
    IN  rx_hist' = [rx_hist EXCEPT
            !.marked_total =
                [s \in DOMAIN rx_hist.marked_total \cup {segment_id} |->
                    IF s = segment_id THEN workers[w].chunk.total_chunks
                    ELSE rx_hist.marked_total[s]],
            !.handed = IF Len(assembled_ch) < capacity THEN Append(@, segment_id) ELSE @]

RxHistMark(w) == RxHistMarkAt(w, assembled_capacity)

RxHistAssemble(genuine) ==
    rx_hist' = [rx_hist EXCEPT !.assemble =
        [called |-> TRUE, segment_id |-> Head(assembled_ch)[1],
         data |-> Head(assembled_ch)[2],
         opened |-> rx_encrypt /\ decrypt(genuine, Head(assembled_ch)[2]).ok]]

----------------------------------------------------------------------------
(* The receiver specification: the chunks of one segment reach the workers *)
(* in any order and number, together with altered and misnumbered ones.    *)

RxFrame == <<SegVars, CipherVars, CcVars, PmVars, HsVars, XfVars>>

\* one segment, one byte longer than a chunk
RxPlain == [i \in 1..(MaxChunkSize + 1) |-> i % 2]
RxChunkSize == MaxChunkSize
RxPayload == IF rx_encrypt THEN seal(1, RxPlain) ELSE RxPlain
RxGenuine == {seal(1, RxPlain)}
RxSplit == split_into_chunks(RxChunkSize, 1, RxPayload, 0)

\* a chunk whose payload was altered and whose crc32 was recomputed
Tampered(chunk) == [Damaged(chunk) EXCEPT !.crc32 = crc32(Damaged(chunk).data)]

\* the datagrams the network may deliver
RxPool ==
    LET orig == {RxSplit[i] : i \in 1..Len(RxSplit)}
    IN  {Chunk_to_bytes(c) :
            c \in orig
                  \cup {Damaged(c) : c \in orig}
                  \cup {Tampered(RxSplit[1])}
                  \cup {[c EXCEPT !.chunk_id = c.total_chunks] : c \in orig}
                  \cup {[RxSplit[1] EXCEPT !.total_chunks = 1]}}
        \cup {NotAChunk}

RxInit ==
    /\ rx_encrypt \in BOOLEAN
    /\ recv_rx = <<>>
    /\ workers = [w \in 1..MaxWorkers |-> WorkerIdle]
    /\ segment_chunks = <<>>
    /\ segment_total_chunks = <<>>
    /\ assembled_segments = {}
    /\ assembled_ch = <<>>
    /\ decrypted_segments = <<>>
    /\ rx_hist = RxHistInit
    /\ SegIdle /\ CipherIdle /\ CcIdle /\ PmIdle /\ HsIdle /\ XfIdle

\* the receive task: `recv_tx.try_send(buf[..len].to_vec())`
RxArrive(bytes) ==
    /\ rx_hist.taken + Len(recv_rx) < MaxRxArrivals
    /\ recv_rx' = Append(recv_rx, bytes)
    /\ UNCHANGED <<rx_encrypt, workers, segment_chunks, segment_total_chunks,
                   assembled_segments, assembled_ch, decrypted_segments, rx_hist, RxFrame>>

RxNext ==
    \/ \E bytes \in RxPool : RxArrive(bytes)
    \/ \E w \in 1..MaxWorkers : WorkerRecv(w) /\ RxHistRecv(w) /\ UNCHANGED RxFrame
    \/ \E w \in 1..MaxWorkers : WorkerStore(w) /\ RxHistStore(w) /\ UNCHANGED RxFrame
    \/ \E w \in 1..MaxWorkers : WorkerMark(w) /\ RxHistMark(w) /\ UNCHANGED RxFrame
    \/ Assemble(RxGenuine) /\ RxHistAssemble(RxGenuine) /\ UNCHANGED RxFrame

SpecReceiver == RxInit /\ [][RxNext]_vars

\* C4 as claimed: no chunk whose crc32 differs from the CRC32 of its data is ever
\* stored in the per-segment chunk map (where it would count toward completion).
C4_CrcFailNeverStored == rx_hist.crc_failed_stored = {}

\* C5 as claimed: a segment in the assembled set has a stored chunk for every
\* chunk id 0..total_chunks-1, total_chunks being the count it was completed under.
C5_AssembledHasEveryChunkId ==
    \A s \in assembled_segments :
        \A i \in 0..(rx_hist.marked_total[s] - 1) : i \in StoredIds(segment_chunks, s)

\* C6 as claimed: with encryption on, a segment that was assembled at its full
\* length with an altered byte, so that its AEAD open failed, is neither in the
\* output map nor in the assembled set.
C6_FailedOpenNotStored ==
    (/\ rx_encrypt /\ rx_hist.assemble.called /\ ~rx_hist.assemble.opened
     /\ Len(rx_hist.assemble.data) = Len(seal(1, RxPlain))) =>
        /\ rx_hist.assemble.segment_id \notin DOMAIN decrypted_segments
        /\ rx_hist.assemble.segment_id \notin assembled_segments

\* C37: each segment id is handed to the assembler at most once, for any
\* interleaving of the workers processing original, redundant and
\* retransmitted copies of that segment's chunks.
C37_HandedOverOnce ==
    \A i, j \in DOMAIN rx_hist.handed : i # j => rx_hist.handed[i] # rx_hist.handed[j]


----------------------------------------------------------------------------
(* large_file_test.rs: the Init / KeyExchange / InitAck handshake of       *)
(* run_server and run_client over UDP.  A datagram is its frame type, its  *)
(* length and its first 32 bytes; public keys and byte prefixes are names. *)

\* InitMessage::to_bytes: 13 header bytes and 50 payload bytes
InitDatagram == [frame |-> "Init", len |-> 13 + 50, first32 |-> "init_bytes"]

\* KeyExchangeMessage::to_bytes: the 32 key bytes
KeyDatagram(public_key) == [frame |-> "KeyExchange", len |-> 32, first32 |-> public_key]

\* InitAckMessage::to_bytes
InitAckDatagram == [frame |-> "InitAck", len |-> 13 + 123, first32 |-> "init_ack_bytes"]

\* KeyExchangeMessage::from_bytes: bincode reads a [u8; 32] from the front of any
\* input of at least 32 bytes and ignores the rest
KeyExchangeMessage_from_bytes(bytes) ==
    IF bytes.len >= 32 THEN [parsed |-> TRUE, public_key |-> bytes.first32]
    ELSE [parsed |-> FALSE]

\* `header.msg_type == MessageType::Init` on the deserialized MessageHeader
IsInit(bytes) == bytes.frame = "Init"

\* InitAckMessage::from_bytes
InitAckMessage_from_bytes(bytes) == bytes.frame = "InitAck"

\* a key derived from the local key pair alone (a mutant)
compute_shared_secret_local(local_public, peer_public) == {local_public}

\* X25519: both sides get the same secret exactly from each other's public keys
compute_shared_secret(local_public, peer_public) == {local_public, peer_public}

\* CryptoSession::establish
establish(local_public, peer_public_key) ==
    [established |-> TRUE, local_public_key |-> local_public,
     peer_public_key |-> peer_public_key,
     key |-> compute_shared_secret(local_public, peer_public_key)]

NoSession == [established |-> FALSE]

HsFrame == <<SegVars, CipherVars, CcVars, PmVars, XfVars>>
HsRxRest == <<workers, segment_chunks, segment_total_chunks, assembled_segments,
              assembled_ch, decrypted_segments, rx_hist>>

HsInit ==
    /\ srv = [pc |-> "wait_init", encrypt |-> TRUE, session |-> NoSession]
    /\ cli = [pc |-> "send_init", retry_count |-> 0, ack_resends |-> 0,
              session |-> NoSession]
    /\ rx_encrypt = TRUE
    /\ net = [to_server |-> {}, to_client |-> {}, delivered_server |-> 0,
              delivered_client |-> 0]
    /\ srv_recv_rx = <<>>
    /\ recv_rx = <<>>
    /\ workers = <<>> /\ segment_chunks = <<>> /\ segment_total_chunks = <<>>
    /\ assembled_segments = {} /\ assembled_ch = <<>>
    /\ decrypted_segments = <<>> /\ rx_hist = <<>>
    /\ SegIdle /\ CipherIdle /\ CcIdle /\ PmIdle /\ XfIdle

\* the network hands a datagram that was sent to the server's receive task; it may
\* do so never, late, or more than once
HsDeliverToServer(bytes) ==
    /\ net.delivered_server < MaxHsDeliveries
    /\ bytes \in net.to_server
    /\ srv_recv_rx' = Append(srv_recv_rx, bytes)
    /\ net' = [net EXCEPT !.delivered_server = @ + 1]
    /\ UNCHANGED <<srv, cli, rx_encrypt, recv_rx, HsRxRest, HsFrame>>

HsDeliverToClient(bytes) ==
    /\ net.delivered_client < MaxHsDeliveries
    /\ bytes \in net.to_client
    /\ recv_rx' = Append(recv_rx, bytes)
    /\ net' = [net EXCEPT !.delivered_client = @ + 1]
    /\ UNCHANGED <<srv, cli, rx_encrypt, srv_recv_rx, HsRxRest, HsFrame>>

\* run_client: `send_tx.send(init_msg.to_bytes())` at the top of the handshake loop
CliSendInit ==
    /\ cli.pc = "send_init"
    /\ net' = [net EXCEPT !.to_server = @ \cup {InitDatagram}]
    /\ cli' = [cli EXCEPT !.pc = "wait_reply"]
    /\ UNCHANGED <<srv, rx_encrypt, recv_rx, srv_recv_rx, HsRxRest, HsFrame>>

\* the end of one iteration of the client's handshake loop without a result
CliRetry(c) ==
    IF c.retry_count + 1 >= MaxInitRetries
    THEN [c EXCEPT !.retry_count = @ + 1, !.pc = "failed"]
    ELSE [c EXCEPT !.retry_count = @ + 1, !.pc = "send_init"]

\* run_client: a datagram arrives within the retry interval
CliReply ==
    /\ cli.pc = "wait_reply"
    /\ recv_rx # <<>>
    /\ recv_rx' = Tail(recv_rx)
    /\ LET data == Head(recv_rx)
           server_key_msg == KeyExchangeMessage_from_bytes(data)
       IN  IF InitAckMessage_from_bytes(data)
           THEN /\ cli' = [cli EXCEPT !.pc = "done"]
                /\ UNCHANGED net
           ELSE IF rx_encrypt /\ server_key_msg.parsed
           THEN /\ net' = [net EXCEPT !.to_server = @ \cup {KeyDatagram("client_public")}]
                /\ cli' = [cli EXCEPT !.pc = "wait_ack",
                                      !.session = establish("client_public",
                                                            server_key_msg.public_key)]
           ELSE /\ cli' = CliRetry(cli)
                /\ UNCHANGED net
    /\ UNCHANGED <<srv, rx_encrypt, srv_recv_rx, HsRxRest, HsFrame>>

\* run_client: nothing arrived within the retry interval
CliReplyTimeout ==
    /\ cli.pc = "wait_reply"
    /\ recv_rx = <<>>
    /\ cli' = CliRetry(cli)
    /\ UNCHANGED <<srv, net, rx_encrypt, recv_rx, srv_recv_rx, HsRxRest, HsFrame>>

\* run_client after the key exchange: wait for InitAck
CliAck ==
    /\ cli.pc = "wait_ack"
    /\ recv_rx # <<>>
    /\ recv_rx' = Tail(recv_rx)
    /\ cli' = IF InitAckMessage_from_bytes(Head(recv_rx)) THEN [cli EXCEPT !.pc = "done"]
              ELSE cli
    /\ UNCHANGED <<srv, net, rx_encrypt, srv_recv_rx, HsRxRest, HsFrame>>

\* run_client after the key exchange: the wait times out and Init is sent again
CliAckTimeout ==
    /\ cli.pc = "wait_ack"
    /\ recv_rx = <<>>
    /\ cli.ack_resends < MaxAckResends
    /\ net' = [net EXCEPT !.to_server = @ \cup {InitDatagram}]
    /\ cli' = [cli EXCEPT !.ack_resends = @ + 1]
    /\ UNCHANGED <<srv, rx_encrypt, recv_rx, srv_recv_rx, HsRxRest, HsFrame>>

\* run_server: the outer loop waiting for Init
SrvInit ==
    /\ srv.pc = "wait_init"
    /\ srv_recv_rx # <<>>
    /\ srv_recv_rx' = Tail(srv_recv_rx)
    /\ srv' = IF IsInit(Head(srv_recv_rx))
              THEN [srv EXCEPT !.pc = IF srv.encrypt THEN "send_key" ELSE "send_ack"]
              ELSE srv
    /\ UNCHANGED <<cli, net, rx_encrypt, recv_rx, HsRxRest, HsFrame>>

\* run_server: `priority_tx.send((key_msg.to_bytes(), addr))` at the top of the key loop
SrvSendKey ==
    /\ srv.pc = "send_key"
    /\ net' = [net EXCEPT !.to_client = @ \cup {KeyDatagram("server_public")}]
    /\ srv' = [srv EXCEPT !.pc = "wait_key"]
    /\ UNCHANGED <<cli, rx_encrypt, recv_rx, srv_recv_rx, HsRxRest, HsFrame>>

\* run_server: a datagram arrives while the client key is awaited
SrvKey ==
    /\ srv.pc = "wait_key"
    /\ srv_recv_rx # <<>>
    /\ srv_recv_rx' = Tail(srv_recv_rx)
    /\ LET msg == KeyExchangeMessage_from_bytes(Head(srv_recv_rx))
       IN  srv' = IF msg.parsed
                  THEN [srv EXCEPT !.pc = "send_ack",
                                   !.session = establish("server_public", msg.public_key)]
                  ELSE [srv EXCEPT !.pc = "send_key"]
    /\ UNCHANGED <<cli, net, rx_encrypt, recv_rx, HsRxRest, HsFrame>>

\* run_server: the 500 ms wait for the client key times out
SrvKeyTimeout ==
    /\ srv.pc = "wait_key"
    /\ srv_recv_rx = <<>>
    /\ srv' = [srv EXCEPT !.pc = "send_key"]
    /\ UNCHANGED <<cli, net, rx_encrypt, recv_rx, srv_recv_rx, HsRxRest, HsFrame>>

\* run_server: InitAck
SrvSendAck ==
    /\ srv.pc = "send_ack"
    /\ net' = [net EXCEPT !.to_client = @ \cup {InitAckDatagram}]
    /\ srv' = [srv EXCEPT !.pc = "done"]
    /\ UNCHANGED <<cli, rx_encrypt, recv_rx, srv_recv_rx, HsRxRest, HsFrame>>

HsNext ==
    \/ \E bytes \in {InitDatagram, KeyDatagram("client_public")} : HsDeliverToServer(bytes)
    \/ \E bytes \in {InitAckDatagram, KeyDatagram("server_public")} : HsDeliverToClient(bytes)
    \/ CliSendInit
    \/ CliReply
    \/ CliReplyTimeout
    \/ CliAck
    \/ CliAckTimeout
    \/ SrvInit
    \/ SrvSendKey
    \/ SrvKey
    \/ SrvKeyTimeout
    \/ SrvSendAck

SpecHandshake == HsInit /\ [][HsNext]_vars

\* the Init frames run_client has sent so far: one per started iteration of its
\* handshake loop and one per timeout while it waits for InitAck
HsInitsSent ==
    cli.retry_count + cli.ack_resends
        + (IF cli.pc \in {"wait_reply", "wait_ack", "done"} THEN 1 ELSE 0)

\* C18: as long as no InitAck has been sent to it, the receiver's connect phase
\* has sent at most max_retries Init frames, with encryption on and after the
\* server's KeyExchange frame has been received as well.
C18_InitSendsBounded ==
    InitAckDatagram \notin net.to_client => HsInitsSent <= MaxInitRetries


\* C7 as claimed: whenever both peers have established their AEAD sessions, each
\* derived it from the public key the other generated, so they hold the same key.
C7_SessionsShareKey ==
    (srv.session.established /\ cli.session.established) =>
        /\ srv.session.peer_public_key = cli.session.local_public_key
        /\ cli.session.peer_public_key = srv.session.local_public_key
        /\ srv.session.key = cli.session.key

----------------------------------------------------------------------------
(* large_file_test.rs: the transfer after the handshake.  run_server sends *)
(* every segment once and then serves NACKs; run_client stores, assembles, *)
(* reports and NACKs until it stops, then concatenates its output.  A     *)
(* receive queue (recv_rx, srv_recv_rx) stands for the whole path to its   *)
(* readers: the peer's send queue, the socket and the queue the receive    *)
(* task fills, in the order sent; its head is what a reader gets next, and *)
(* a reader that times out on it finds that nothing has arrived yet.       *)
(* The client's timers (time since the last chunk, deadlines) may fire at  *)
(* any scheduler iteration; the server is followed while it serves, before *)
(* its own deadlines.                                                      *)

total_segments(x) == (Len(x.data) + x.segment_size - 1) \div x.segment_size

\* InitAckMessage::with_client_timestamp: `segment_size / chunk_size`
chunks_per_segment(x) == x.segment_size \div x.chunk_size

\* `&data[offset..end]` of segment segment_id
segment_bytes(x, segment_id) ==
    SubSeq(x.data, (segment_id - 1) * x.segment_size + 1,
           Min(segment_id * x.segment_size, Len(x.data)))

\* `(chunks.len() as f64 * redundancy_ratio).ceil()` at base_redundancy_ratio 0.20
redundant_count(n) == (n * 20 + 99) \div 100

\* every sequence that lists the members of S once
SeqsOf(S) ==
    {f \in [1..Cardinality(S) -> S] : \A i, j \in 1..Cardinality(S) : i # j => f[i] # f[j]}

\* SegmentBuilder::create_redundant_chunks for the sampled indices
create_redundant_chunks(chunks, sample) ==
    [k \in 1..Len(sample) |-> [chunks[sample[k]] EXCEPT !.is_redundant = TRUE]]

\* FlowControlMessage::to_bytes / NackMessage::to_bytes
FlowControlDatagram(processing_rate) ==
    [frame |-> "FlowControl", processing_rate |-> processing_rate]
NackDatagram(segment_id, ids) ==
    [frame |-> "Nack", segment_id |-> segment_id, missing_chunk_ids |-> ids]

\* `mpsc::channel::<NackMessage>(10000)` and the receive queues' `channel(100_000)`
nack_capacity == 10000
recv_capacity == 100000

\* `recv_tx.try_send(..)` for each datagram sent: what does not fit is dropped
path_send(path, frames, capacity) ==
    path \o SubSeq(frames, 1, Min(Len(frames), Max(capacity - Len(path), 0)))

\* the NACK worker's loop over nack.missing_chunk_ids without the send (a mutant)
retransmit_nothing(cache, nack) == <<>>

\* the NACK worker's loop over nack.missing_chunk_ids: the datagrams it sends
retransmit(cache, nack) ==
    IF nack.segment_id \in DOMAIN cache
    THEN LET chunks == cache[nack.segment_id]
             held == SelectSeq(nack.missing_chunk_ids, LAMBDA c : c < Len(chunks))
         IN  [k \in 1..Len(held) |-> Chunk_to_bytes(chunks[held[k] + 1])]
    ELSE <<>>

\* `(0..total_chunks).filter(|i| !received.contains(i))`
missing_of(total_chunks, received) ==
    SelectSeq([i \in 1..total_chunks |-> i - 1], LAMBDA c : c \notin received)

\* the segments the scheduler NACKs in its first loop (some chunk stored, not
\* assembled, something missing) and in its second (nothing stored)
nack_partial(chunks, totals, assembled) ==
    {s \in {k[1] : k \in DOMAIN chunks} :
        /\ s \notin assembled
        /\ missing_of(IF s \in DOMAIN totals THEN totals[s] ELSE 55,
                      StoredIds(chunks, s)) # <<>>}
nack_whole(x, chunks, assembled) ==
    {s \in 1..total_segments(x) : s \notin assembled /\ s \notin {k[1] : k \in DOMAIN chunks}}

RECURSIVE ascending(_)
\* the members of a set of numbers in ascending order
ascending(S) ==
    IF S = {} THEN <<>>
    ELSE LET lo == CHOOSE i \in S : \A j \in S : i <= j
         IN  <<lo>> \o ascending(S \ {lo})

\* the scheduler's NACK frames: first loop in the map's iteration order `order`,
\* second loop in ascending id with ids 0..chunks_per_segment-1
nack_frames(x, chunks, totals, assembled, order) ==
    LET whole == ascending(nack_whole(x, chunks, assembled))
    IN  [k \in 1..Len(order) |->
            NackDatagram(order[k],
                missing_of(IF order[k] \in DOMAIN totals THEN totals[order[k]] ELSE 55,
                           StoredIds(chunks, order[k])))]
        \o [k \in 1..Len(whole) |->
               NackDatagram(whole[k], [i \in 1..chunks_per_segment(x) |-> i - 1])]

RECURSIVE concat_descending(_, _)
\* the final loop over the ids in the wrong order (a mutant)
concat_descending(segments, ids) ==
    IF ids = {} THEN <<>>
    ELSE LET hi == CHOOSE i \in ids : \A j \in ids : j <= i
         IN  segments[hi] \o concat_descending(segments, ids \ {hi})

RECURSIVE concat_sorted(_, _)
\* run_client's final loop: the stored segments in ascending id order
concat_sorted(segments, ids) ==
    IF ids = {} THEN <<>>
    ELSE LET lo == CHOOSE i \in ids : \A j \in ids : i <= j
         IN  segments[lo] \o concat_sorted(segments, ids \ {lo})

XfStores == <<rx_encrypt, workers, segment_chunks, segment_total_chunks,
              assembled_segments, assembled_ch, decrypted_segments>>
XfFrame == <<SegVars, CipherVars, PmVars, cc_hist, rx_hist, net, xfer_in>>

\* run_server's loop body for one segment: seal, split, add redundant copies,
\* cache, send the originals and then the copies
SrvSendSegment(sample) ==
    /\ srv.pc = "sending"
    /\ srv.segment_id <= total_segments(xfer_in)
    /\ LET segment_data == segment_bytes(xfer_in, srv.segment_id)
           processed_data == IF srv.encrypt THEN seal(srv.segment_id, segment_data)
                             ELSE segment_data
           chunks == split_into_chunks(xfer_in.chunk_size, srv.segment_id, processed_data, 0)
       IN  /\ \A k \in DOMAIN sample : sample[k] \in 1..Len(chunks)
           /\ Len(sample) = redundant_count(Len(chunks))
           /\ chunks_cache' = [i \in DOMAIN chunks_cache \cup {srv.segment_id} |->
                                  IF i = srv.segment_id THEN chunks ELSE chunks_cache[i]]
           /\ recv_rx' =
                  path_send(recv_rx,
                            [i \in 1..Len(chunks) |-> Chunk_to_bytes(chunks[i])]
                            \o [k \in 1..Len(sample) |->
                                   Chunk_to_bytes(create_redundant_chunks(chunks, sample)[k])],
                            xfer_in.recv_capacity)
    /\ srv' = [srv EXCEPT !.segment_id = @ + 1]
    /\ UNCHANGED <<nack_ch, srv_recv_rx, cc, cli, received_data, XfStores, XfFrame>>

\* run_server after the last segment: `sending_active.store(false)`, then the
\* dispatcher and the NACK workers start
SrvSendingDone ==
    /\ srv.pc = "sending"
    /\ srv.segment_id > total_segments(xfer_in)
    /\ srv' = [srv EXCEPT !.pc = "nack_service", !.sending_active = FALSE]
    /\ UNCHANGED <<chunks_cache, nack_ch, srv_recv_rx, cc, recv_rx, cli, received_data,
                   XfStores, XfFrame>>

\* _fc_task takes a datagram; only FlowControl is used, anything else is discarded
SrvFcRecv(elapsed_us) ==
    /\ srv.fc_task = "recv"
    /\ srv_recv_rx # <<>>
    /\ srv_recv_rx' = Tail(srv_recv_rx)
    /\ LET data == Head(srv_recv_rx)
           after == IF srv.sending_active THEN "recv" ELSE "exited"
       IN  IF data.frame # "FlowControl"
           THEN /\ srv' = [srv EXCEPT !.fc_task = after]
                /\ UNCHANGED cc
           ELSE IF srv.first_fc /\ data.processing_rate > 0
           THEN /\ cc' = set_initial_rate(cc, data.processing_rate)
                /\ srv' = [srv EXCEPT !.fc_task = after, !.first_fc = FALSE]
           ELSE IF elapsed_us > 10000
           THEN /\ cc' = on_feedback(cc,
                             Max(data.processing_rate - srv.prev_client_segments, 0)
                                 * xfer_in.chunk_size * 55,
                             elapsed_us)
                /\ srv' = [srv EXCEPT !.fc_task = after,
                                      !.prev_client_segments = data.processing_rate]
           ELSE /\ srv' = [srv EXCEPT !.fc_task = after]
                /\ UNCHANGED cc
    /\ UNCHANGED <<chunks_cache, nack_ch, recv_rx, cli, received_data, XfStores, XfFrame>>

\* _fc_task sees sending_active false at the top of its loop
SrvFcExit ==
    /\ srv.fc_task = "recv"
    /\ ~srv.sending_active
    /\ srv' = [srv EXCEPT !.fc_task = "exited"]
    /\ UNCHANGED <<chunks_cache, nack_ch, srv_recv_rx, cc, recv_rx, cli, received_data,
                   XfStores, XfFrame>>

\* dispatcher_task, once _fc_task has released the receive queue
SrvDispatch ==
    /\ srv.pc = "nack_service"
    /\ srv.fc_task = "exited"
    /\ srv_recv_rx # <<>>
    /\ srv_recv_rx' = Tail(srv_recv_rx)
    /\ LET data == Head(srv_recv_rx)
       IN  /\ recv_rx' = IF IsInit(data)
                         THEN path_send(recv_rx, <<InitAckDatagram>>, xfer_in.recv_capacity)
                         ELSE recv_rx
           /\ nack_ch' = IF data.frame = "Nack" /\ Len(nack_ch) < nack_capacity
                         THEN Append(nack_ch, data)
                         ELSE nack_ch
    /\ UNCHANGED <<srv, chunks_cache, cc, cli, received_data, XfStores, XfFrame>>

\* a NACK worker serves one NACK from the cache
SrvNackWorker ==
    /\ srv.pc = "nack_service"
    /\ nack_ch # <<>>
    /\ nack_ch' = Tail(nack_ch)
    /\ recv_rx' = path_send(recv_rx, retransmit(chunks_cache, Head(nack_ch)),
                            xfer_in.recv_capacity)
    /\ UNCHANGED <<srv, chunks_cache, srv_recv_rx, cc, cli, received_data, XfStores, XfFrame>>

\* a worker's pass over one datagram up to the end of the locked section: what
\* WorkerRecv and WorkerStore do, in one step
WorkerHandle(w) ==
    /\ workers[w].pc = "recv"
    /\ recv_rx # <<>>
    /\ recv_rx' = Tail(recv_rx)
    /\ LET r == Chunk_from_bytes(Head(recv_rx))
           chunks == store_chunk(segment_chunks, r.chunk)
       IN  IF r.parsed
           THEN /\ segment_total_chunks' = record_total(segment_total_chunks, r.chunk)
                /\ segment_chunks' = chunks
                /\ workers' = [workers EXCEPT ![w] =
                       after_store(chunks, assembled_segments, r.chunk)]
           ELSE UNCHANGED <<workers, segment_total_chunks, segment_chunks>>
    /\ UNCHANGED <<rx_encrypt, assembled_segments, assembled_ch, decrypted_segments>>

\* a worker's 50 ms wait ends with nothing arrived, after `running` was cleared
WorkerExit(w) ==
    /\ workers[w].pc = "recv"
    /\ recv_rx = <<>>
    /\ ~cli.running
    /\ workers' = [workers EXCEPT ![w] = [pc |-> "exited"]]
    /\ UNCHANGED <<srv, chunks_cache, nack_ch, srv_recv_rx, cc, recv_rx, cli, received_data,
                   rx_encrypt, segment_chunks, segment_total_chunks, assembled_segments,
                   assembled_ch, decrypted_segments, XfFrame>>

\* what every sealed segment of this session looks like on the wire
XfGenuine == {seal(s, segment_bytes(xfer_in, s)) : s \in 1..total_segments(xfer_in)}

\* the frames one iteration of the scheduler loop offers to the send queue: the
\* FlowControl frame and, short of completion and 200 ms after the last chunk,
\* the NACKs
tick_frames(quiet, order) ==
    <<FlowControlDatagram(Cardinality(assembled_segments))>>
    \o (IF /\ Cardinality(assembled_segments) < total_segments(xfer_in)
           /\ quiet # "active"
        THEN nack_frames(xfer_in, segment_chunks, segment_total_chunks,
                         assembled_segments, order)
        ELSE <<>>)

\* one iteration of run_client's scheduler loop, 100 ms after the one before: the
\* FlowControl frame, the completion check, the NACKs, the timers.  quiet: how
\* long ago a worker last took a chunk ("active", over "200ms", over "10s", over
\* "60s"); deadline: the overall timeout has passed; order: the chunk map's
\* iteration order.  cli.ticks bounds the iterations that do not leave the loop
CliTick(quiet, deadline, order) ==
    /\ cli.pc = "running"
    /\ LET assembled_count == Cardinality(assembled_segments)
           expected_segments == total_segments(xfer_in)
           complete == assembled_count >= expected_segments
           send_nacks == ~complete /\ quiet # "active"
           exit == IF complete THEN "complete"
                   ELSE IF quiet \in {"10s", "60s"} /\ assembled_count * 100 >= 95 * expected_segments
                   THEN "timeout"
                   ELSE IF quiet = "60s" THEN "timeout"
                   ELSE IF deadline THEN "timeout"
                   ELSE "none"
       IN  /\ exit = "none" => cli.ticks # 0
           /\ order \in SeqsOf(IF send_nacks
                               THEN nack_partial(segment_chunks, segment_total_chunks,
                                                 assembled_segments)
                               ELSE {})
           /\ srv_recv_rx' = path_send(srv_recv_rx, tick_frames(quiet, order),
                                       xfer_in.recv_capacity)
           /\ cli' = [cli EXCEPT
                  !.ticks = IF exit = "none" /\ @ > 0 THEN @ - 1 ELSE @,
                  !.exit = exit,
                  !.running = (exit = "none"),
                  !.pc = IF exit = "none" THEN "running" ELSE "shutdown"]
    /\ UNCHANGED <<srv, chunks_cache, nack_ch, cc, recv_rx, received_data, XfStores, XfFrame>>

\* run_client after the loop: the workers and assemble_task have ended, the stored
\* segments are concatenated in ascending id
CliConcat ==
    /\ cli.pc = "shutdown"
    /\ \A w \in DOMAIN workers : workers[w].pc = "exited"
    /\ assembled_ch = <<>>
    /\ received_data' = concat_sorted(decrypted_segments, DOMAIN decrypted_segments)
    /\ cli' = [cli EXCEPT !.pc = "done"]
    /\ UNCHANGED <<srv, chunks_cache, nack_ch, srv_recv_rx, cc, recv_rx, XfStores, XfFrame>>

\* the inputs: position-valued bytes, so that a byte out of place shows
XfData == {[i \in 1..n |-> i] : n \in 0..MaxFileLen}

\* the transfer's parameters: the sizes and the capacity of a receive queue
XfInput(data, recv_cap) ==
    [data |-> data, chunk_size |-> MaxChunkSize, segment_size |-> MaxSegLen,
     recv_capacity |-> recv_cap]

\* run_server after the handshake (segment_id 1, empty cache, FlowControl task
\* started)
SrvAfterHandshake(encrypt) ==
    [pc |-> "sending", segment_id |-> 1, sending_active |-> TRUE, fc_task |-> "recv",
     first_fc |-> TRUE, prev_client_segments |-> 0, encrypt |-> encrypt]

\* run_client after the handshake: scheduler loop about to start (ticks -1: no
\* bound on its iterations)
CliAfterHandshake(ticks) ==
    [pc |-> "running", exit |-> "none", running |-> TRUE, ticks |-> ticks]

\* the state when the handshake has ended, but for the inputs and the budgets: the
\* client has received InitAck and has sent its first FlowControl (default
\* estimate 100 MB/s)
XferStart ==
    /\ srv = SrvAfterHandshake(rx_encrypt)
    /\ srv_recv_rx = <<FlowControlDatagram(100)>>
    /\ chunks_cache = <<>>
    /\ nack_ch = <<>>
    /\ received_data = <<>>
    /\ cc = CongestionControl_new
    /\ cc_hist = <<>>
    /\ recv_rx = <<>>
    /\ workers = [w \in 1..Min(MaxWorkers, 2) |-> WorkerIdle]
    /\ segment_chunks = <<>>
    /\ segment_total_chunks = <<>>
    /\ assembled_segments = {}
    /\ assembled_ch = <<>>
    /\ decrypted_segments = <<>>
    /\ rx_hist = RxHistInit
    /\ net = <<>>
    /\ SegIdle /\ CipherIdle /\ PmIdle

\* a plaintext transfer
XferInit ==
    /\ xfer_in \in {XfInput(data, recv_capacity) : data \in XfData}
    /\ rx_encrypt = FALSE
    /\ cli = CliAfterHandshake(MaxTicks)
    /\ XferStart

XfRest == <<srv, chunks_cache, nack_ch, srv_recv_rx, cc, cli, received_data, XfFrame>>

XferQuiet == {"active", "200ms", "10s", "60s"}

\* the samples create_redundant_chunks may draw
XfSamples ==
    UNION {SeqsOf(S) : S \in {T \in SUBSET (1..(MaxSegLen + 2)) :
                                 Cardinality(T) <= redundant_count(MaxSegLen + 2)}}

\* the transfer is followed until the receiver has produced its output
XfOpen == cli.pc # "done"

XferReceive ==
    \/ \E w \in DOMAIN workers : XfOpen /\ WorkerHandle(w) /\ UNCHANGED XfRest
    \/ \E w \in DOMAIN workers : XfOpen /\ WorkerMark(w) /\ UNCHANGED XfRest
    \/ XfOpen /\ Assemble(XfGenuine) /\ UNCHANGED XfRest

XferServe ==
    \/ \E sample \in XfSamples : XfOpen /\ SrvSendSegment(sample)
    \/ XfOpen /\ SrvSendingDone
    \/ \E elapsed_us \in {5000, 100000} : XfOpen /\ SrvFcRecv(elapsed_us)
    \/ XfOpen /\ SrvFcExit
    \/ XfOpen /\ SrvDispatch
    \/ XfOpen /\ SrvNackWorker

XferOrders == UNION {SeqsOf(S) : S \in SUBSET (1..total_segments(xfer_in))}

XferEnd ==
    \/ \E w \in DOMAIN workers : XfOpen /\ WorkerExit(w)
    \/ \E quiet \in XferQuiet, deadline \in BOOLEAN, order \in XferOrders :
           CliTick(quiet, deadline, order)
    \/ CliConcat

XferNext == XferServe \/ XferReceive \/ XferEnd

SpecTransfer == XferInit /\ [][XferNext]_vars

\* the number of chunks run_server produces for segment s
SrvTotalChunks(s) ==
    LET segment_data == segment_bytes(xfer_in, s)
        processed_data == IF srv.encrypt THEN seal(s, segment_data) ELSE segment_data
    IN  Len(split_into_chunks(xfer_in.chunk_size, s, processed_data, 0))

\* C24: a NACK the receiver emits for a segment of which no chunk has arrived
\* lists every chunk id of that segment, 0..total_chunks-1 for the total_chunks
\* the sender produced for it.
C24_WholeSegmentNackListsAll ==
    [][\A quiet \in XferQuiet, deadline \in BOOLEAN, order \in XferOrders :
           CliTick(quiet, deadline, order) =>
               \A k \in DOMAIN tick_frames(quiet, order) :
                   LET f == tick_frames(quiet, order)[k]
                   IN  (/\ f.frame = "Nack"
                        /\ StoredIds(segment_chunks, f.segment_id) = {}
                        /\ f.segment_id \notin assembled_segments)
                           => f.missing_chunk_ids
                                  = [i \in 1..SrvTotalChunks(f.segment_id) |-> i - 1]]_vars


\* the bytes the sender cut the stored segments from, in ascending id
XfOriginal(ids) == concat_sorted([s \in ids |-> segment_bytes(xfer_in, s)], ids)

----------------------------------------------------------------------------
(* The transfer over a path that loses chunks, with no timer of either side *)
(* firing: the scheduler loop runs on without a bound, the sender waits     *)
(* while the path to the receiver holds MaxQueue datagrams, and the chunk   *)
(* datagram that would arrive next may be lost instead.                     *)

\* one full segment
RecData == [i \in 1..MaxSegLen |-> i]
RecSegments == 1..1

\* the chunks the sender cuts segment s of the input into
RecChunks(s) ==
    split_into_chunks(xfer_in.chunk_size, s, segment_bytes(xfer_in, s), 0)

\* every chunk datagram the sender can emit for RecData
RecDatagrams ==
    LET x == XfInput(RecData, recv_capacity)
        chunks(s) == split_into_chunks(x.chunk_size, s, segment_bytes(x, s), 0)
    IN  UNION {{Chunk_to_bytes([chunks(s)[i] EXCEPT !.is_redundant = r]) :
                   i \in 1..Len(chunks(s)), r \in BOOLEAN} : s \in RecSegments}

\* the chunk ids of a full segment
RecChunkIds == 0..((MaxSegLen + MaxChunkSize - 1) \div MaxChunkSize - 1)

RecInit ==
    /\ xfer_in = XfInput(RecData, recv_capacity)
    /\ rx_encrypt = FALSE
    /\ cli = CliAfterHandshake(-1)
    /\ XferStart

\* chunk i of segment s is not stored at the receiver, which still waits for it
RecMissing(s, i) ==
    /\ s \in 1..total_segments(xfer_in)
    /\ i < Len(RecChunks(s))
    /\ s \notin assembled_segments
    /\ <<s, i>> \notin DOMAIN segment_chunks

\* some queue on the way to the receiver holds a copy of chunk i of segment s
RecOnPath(path, s, i) ==
    \E k \in 1..Len(path) :
        /\ path[k].frame = "chunk"
        /\ path[k].header.segment_id = s
        /\ path[k].header.chunk_id = i

\* chunk i of segment s is missing and only a retransmission can bring it: the
\* sender is past its send loop and no copy is on the way
RecStranded(s, i) ==
    /\ RecMissing(s, i)
    /\ srv.pc = "nack_service"
    /\ ~RecOnPath(recv_rx, s, i)

\* a NACK frame that lists chunk i of segment s is on its way to, or queued at,
\* the sender
RecListed(s, i) ==
    \E k \in 1..Len(srv_recv_rx \o nack_ch) :
        LET f == (srv_recv_rx \o nack_ch)[k]
        IN  /\ f.frame = "Nack"
            /\ f.segment_id = s
            /\ \E j \in 1..Len(f.missing_chunk_ids) : f.missing_chunk_ids[j] = i

\* the sender waits while the path to the receiver is full
RecRoom == Len(recv_rx') <= MaxQueue

\* the sender's tasks keep up with the receiver's 100 ms scheduler: an
\* iteration finds the frames of the one before taken, and the dispatcher finds
\* the NACK it passed on before taken
RecTickRoom == srv_recv_rx = <<>>
RecNackRoom == nack_ch = <<>>

\* the datagram that would arrive next is lost; net keeps a mark when that
\* strands its chunk
NetDropChunk ==
    /\ XfOpen
    /\ recv_rx # <<>>
    /\ Head(recv_rx).frame = "chunk"
    /\ recv_rx' = Tail(recv_rx)
    /\ LET h == Head(recv_rx).header
       IN  net' = IF /\ RecMissing(h.segment_id, h.chunk_id)
                     /\ srv.pc = "nack_service"
                     /\ ~RecOnPath(Tail(recv_rx), h.segment_id, h.chunk_id)
                  THEN <<"stranded">>
                  ELSE net
    /\ UNCHANGED <<srv, chunks_cache, nack_ch, srv_recv_rx, cc, cli, received_data,
                   XfStores, SegVars, CipherVars, PmVars, cc_hist, rx_hist, xfer_in>>

\* the steps of the transfer
RecSendSegment == \E sample \in XfSamples : XfOpen /\ SrvSendSegment(sample) /\ RecRoom
RecSendingDone == XfOpen /\ SrvSendingDone
RecFcRecv == \E elapsed_us \in {5000, 100000} : XfOpen /\ SrvFcRecv(elapsed_us)
RecFcExit == XfOpen /\ SrvFcExit
RecDispatch == XfOpen /\ RecNackRoom /\ SrvDispatch
RecNackWorker == XfOpen /\ SrvNackWorker /\ RecRoom
RecDeliver(d) ==
    /\ XfOpen
    /\ recv_rx # <<>>
    /\ Head(recv_rx) = d
    /\ \E w \in DOMAIN workers : WorkerHandle(w) /\ UNCHANGED XfRest
RecMark == \E w \in DOMAIN workers : XfOpen /\ WorkerMark(w) /\ UNCHANGED XfRest
RecAssemble == XfOpen /\ Assemble(XfGenuine) /\ UNCHANGED XfRest
RecWorkerExit == \E w \in DOMAIN workers : XfOpen /\ WorkerExit(w)
\* an iteration of the scheduler loop less than 200 ms, or more, after the last
\* chunk was taken; no iteration finds a timer expired
RecTickActive == \E order \in XferOrders : RecTickRoom /\ CliTick("active", FALSE, order)
RecTickQuiet == \E order \in XferOrders : RecTickRoom /\ CliTick("200ms", FALSE, order)

RecNext ==
    \/ RecSendSegment
    \/ RecSendingDone
    \/ RecFcRecv
    \/ RecFcExit
    \/ RecDispatch
    \/ RecNackWorker
    \/ \E d \in RecDatagrams : RecDeliver(d)
    \/ RecMark
    \/ RecAssemble
    \/ RecWorkerExit
    \/ RecTickActive
    \/ RecTickQuiet
    \/ CliConcat
    \/ NetDropChunk

\* every task keeps running; a scheduler iteration comes 200 ms after the last
\* chunk again and again while nothing arrives; a chunk datagram that reaches
\* the head of the path again and again is not lost every time
RecFair ==
    /\ WF_vars(RecSendSegment)
    /\ WF_vars(RecSendingDone)
    /\ WF_vars(RecFcRecv)
    /\ WF_vars(RecFcExit)
    /\ WF_vars(RecDispatch)
    /\ WF_vars(RecNackWorker)
    /\ WF_vars(RecMark)
    /\ WF_vars(RecAssemble)
    /\ WF_vars(RecWorkerExit)
    /\ WF_vars(CliConcat)
    /\ SF_vars(RecTickQuiet)
    /\ \A d \in RecDatagrams : SF_vars(RecDeliver(d))

SpecRecovery == RecInit /\ [][RecNext]_vars /\ RecFair

XfAllAssembled == assembled_segments = 1..total_segments(xfer_in)

----------------------------------------------------------------------------
(* run_client against any peer and any network: chunk datagrams of the     *)
(* session may arrive at any time, the frames the client sends are taken   *)
(* at any time, and every timer of the scheduler loop may fire.            *)

HaltInit ==
    /\ xfer_in = XfInput(RecData, MaxQueue)
    /\ rx_encrypt = FALSE
    /\ cli = CliAfterHandshake(-1)
    /\ XferStart

HaltRest == <<srv, chunks_cache, nack_ch, cc, cli, received_data, XfFrame>>

\* a chunk datagram reaches the receive task, which queues it if there is room
NetInject(d) ==
    /\ XfOpen
    /\ Len(recv_rx) < xfer_in.recv_capacity
    /\ recv_rx' = path_send(recv_rx, <<d>>, xfer_in.recv_capacity)
    /\ UNCHANGED <<srv_recv_rx, XfStores, HaltRest>>

\* the peer takes a frame the client has sent
PeerTake ==
    /\ XfOpen
    /\ srv_recv_rx # <<>>
    /\ srv_recv_rx' = Tail(srv_recv_rx)
    /\ UNCHANGED <<recv_rx, XfStores, HaltRest>>

HaltHandle == \E w \in DOMAIN workers : XfOpen /\ WorkerHandle(w) /\ UNCHANGED XfRest
HaltWorkerExit == \E w \in DOMAIN workers : XfOpen /\ WorkerExit(w)
\* a scheduler iteration before, and the first one after, the overall deadline
HaltTick ==
    \E quiet \in XferQuiet, order \in XferOrders : CliTick(quiet, FALSE, order)
HaltDeadline ==
    \E quiet \in XferQuiet, order \in XferOrders : CliTick(quiet, TRUE, order)

HaltNext ==
    \/ \E d \in RecDatagrams : NetInject(d)
    \/ PeerTake
    \/ HaltHandle
    \/ RecMark
    \/ RecAssemble
    \/ HaltWorkerExit
    \/ HaltTick
    \/ HaltDeadline
    \/ CliConcat

\* every task of the client keeps running, and the overall deadline passes
HaltFair ==
    /\ WF_vars(HaltHandle)
    /\ WF_vars(RecMark)
    /\ WF_vars(RecAssemble)
    /\ WF_vars(HaltWorkerExit)
    /\ WF_vars(HaltDeadline)
    /\ WF_vars(CliConcat)

SpecHalt == HaltInit /\ [][HaltNext]_vars /\ HaltFair

\* C12: whatever the peer and the network do, run_client returns once its
\* overall deadline has passed (and run_server likewise).
C12_ClientReturns == <>(cli.pc = "done")

\* C34: after the example receiver clears its running flag, every worker task
\* exits even if datagrams keep arriving on the inbound queue, so the join on
\* the worker handles completes.
C34_WorkersExitAfterStop ==
    (cli.pc = "shutdown") ~> (\A w \in DOMAIN workers : workers[w].pc = "exited")



\* C13: no control frame is discarded because a queue is full: every FlowControl
\* and Nack frame that an iteration of the client's scheduler loop offers is on
\* the path to the sender afterwards.
C13_ControlNeverDropped ==
    [][\A quiet \in XferQuiet, deadline \in BOOLEAN, order \in XferOrders :
           CliTick(quiet, deadline, order) =>
               srv_recv_rx' = srv_recv_rx \o tick_frames(quiet, order)]_vars


----------------------------------------------------------------------------
(* sender.rs Sender.  srv holds the Sender's flags and next_segment_id,    *)
(* chunks_cache its `segments` map; srv.complete_received records the ids  *)
(* of the well-formed SegmentComplete frames that have reached it.         *)

\* the frames that reach Sender::start's socket: magic says whether the first four
\* bytes are MAGIC_NUMBER, which every frame built by message.rs has; at16 is the
\* u64 at bytes 16..24
SndFrames ==
    [magic : BOOLEAN, msg_type : {"Init", "Nack", "SegmentComplete", "Close"},
     segment_id : 1..MaxSendCalls, missing_chunk_ids : {<<0>>, <<1, 0>>},
     at16 : 0..MaxSendCalls]

\* SegmentCompleteMessage::to_bytes for a small id: a 13-byte header, then the id
\* at bytes 13..21, so bytes 16..24 hold the id's upper five bytes (zero) and the
\* lower three bytes of total_chunks_received (zero here)
SegmentCompleteDatagram(segment_id) ==
    [magic |-> TRUE, msg_type |-> "SegmentComplete", segment_id |-> segment_id,
     missing_chunk_ids |-> <<0>>, at16 |-> 0]

\* Sender::new
Sender_new ==
    [running |-> TRUE, client_addr |-> FALSE, next_segment_id |-> 1,
     complete_received |-> {}]

\* the SegmentState that send_data inserts
SegmentState_new(chunks) ==
    [chunks |-> chunks, completed |-> FALSE, retransmit_queue |-> <<>>]

SndFrame == <<SegVars, CipherVars, CcVars, PmVars, RxVars, cli, net, srv_recv_rx,
              xfer_in, nack_ch, received_data>>

SndInit ==
    /\ srv = Sender_new
    /\ chunks_cache = <<>>
    /\ cli = <<>> /\ net = <<>> /\ srv_recv_rx = <<>>
    /\ xfer_in = <<>> /\ nack_ch = <<>> /\ received_data = <<>>
    /\ SegIdle /\ CipherIdle /\ CcIdle /\ PmIdle /\ RxIdle

\* Sender::send_data: the state is inserted before client_addr is looked at
SndSendData(data) ==
    /\ srv.running
    /\ srv.next_segment_id <= MaxSendCalls
    /\ LET segment_id == srv.next_segment_id
           chunks == split_into_chunks(MaxChunkSize, segment_id, data, 0)
       IN  chunks_cache' = [i \in DOMAIN chunks_cache \cup {segment_id} |->
                               IF i = segment_id THEN SegmentState_new(chunks)
                               ELSE chunks_cache[i]]
    /\ srv' = [srv EXCEPT !.next_segment_id = @ + 1]
    /\ UNCHANGED SndFrame

\* `state.retransmit_queue.push(*chunk_id)` for the ids not yet queued
queue_missing(queue, ids) ==
    IF ids = <<>> THEN queue
    ELSE LET q == IF \E k \in 1..Len(queue) : queue[k] = ids[1]
                  THEN queue ELSE Append(queue, ids[1])
         IN  IF Len(ids) = 1 THEN q
             ELSE IF \E k \in 1..Len(q) : q[k] = ids[2] THEN q ELSE Append(q, ids[2])

\* Sender::handle_message and handle_control_message for one datagram: a frame
\* that starts with MAGIC_NUMBER is taken for a chunk and ignored, any other is
\* parsed as a control message
SndHandleMessage(m) ==
    /\ srv.running
    /\ LET heard == IF m.msg_type = "SegmentComplete"
                    THEN srv.complete_received \cup {m.segment_id, m.at16}
                    ELSE srv.complete_received
       IN  IF m.magic
           THEN /\ srv' = [srv EXCEPT !.complete_received = heard]
                /\ UNCHANGED chunks_cache
           ELSE IF m.msg_type = "Init"
           THEN srv' = [srv EXCEPT !.client_addr = TRUE] /\ UNCHANGED chunks_cache
           ELSE IF m.msg_type = "Close"
           THEN srv' = [srv EXCEPT !.client_addr = FALSE] /\ UNCHANGED chunks_cache
           ELSE IF m.msg_type = "Nack"
           THEN /\ chunks_cache' =
                       IF m.segment_id \in DOMAIN chunks_cache
                       THEN [chunks_cache EXCEPT ![m.segment_id].retransmit_queue =
                                queue_missing(@, m.missing_chunk_ids)]
                       ELSE chunks_cache
                /\ UNCHANGED srv
           ELSE /\ chunks_cache' =
                       [i \in DOMAIN chunks_cache \ {m.at16} |-> chunks_cache[i]]
                /\ srv' = [srv EXCEPT !.complete_received = heard]
    /\ UNCHANGED SndFrame

\* Sender::process_retransmits from start's 10 ms timer; the segments with an id
\* up to `expired` were created more than segment_timeout_ms ago
SndProcessRetransmits(expired) ==
    /\ srv.running
    /\ srv.client_addr
    /\ chunks_cache' =
           [i \in {j \in DOMAIN chunks_cache : ~chunks_cache[j].completed /\ j > expired} |->
               [chunks_cache[i] EXCEPT !.retransmit_queue = <<>>]]
    /\ UNCHANGED <<srv, SndFrame>>

\* Sender::stop
SndStop ==
    /\ srv.running
    /\ srv' = [srv EXCEPT !.running = FALSE]
    /\ UNCHANGED <<chunks_cache, SndFrame>>

SndData == {<<1>>, [i \in 1..MaxSegLen |-> i]}

SndNext ==
    \/ \E data \in SndData : SndSendData(data)
    \/ \E m \in SndFrames : SndHandleMessage(m)
    \/ \E expired \in 0..MaxSendCalls : SndProcessRetransmits(expired)
    \/ SndStop

SpecSender == SndInit /\ [][SndNext]_vars

\* C14: the Sender removes a segment from its segments map only once a
\* SegmentComplete frame for that segment id has reached it, or at session end.
C14_CachedUntilComplete ==
    [][\A id \in DOMAIN chunks_cache :
           id \notin DOMAIN chunks_cache' =>
               id \in srv'.complete_received \/ ~srv'.running]_vars


----------------------------------------------------------------------------
(* receiver.rs ReceiverInner, which one task drives command by command.    *)
(* seg holds its `segments` map (segment id -> Segment), assembled_ch what *)
(* it has sent on the completed channel, net the frames it has sent.       *)

\* the chunks that reach the Receiver: a two-chunk and a one-byte segment, as
\* originals and as redundant copies
LrPool ==
    LET a == split_into_chunks(MaxChunkSize, 1, [i \in 1..MaxSegLen |-> i], 0)
        b == split_into_chunks(MaxChunkSize, 2, <<1>>, 0)
        orig == {a[i] : i \in 1..Len(a)} \cup {b[i] : i \in 1..Len(b)}
    IN  orig \cup {[c EXCEPT !.is_redundant = TRUE] : c \in orig}

LrFrame == <<seg_src, seg_last, CipherVars, CcVars, PmVars, srv, cli, srv_recv_rx, XfVars>>
LrRxRest == <<rx_encrypt, recv_rx, workers, segment_chunks, segment_total_chunks,
              assembled_segments, decrypted_segments, rx_hist>>

\* ReceiverInner::new
LrInit ==
    /\ seg = <<>>
    /\ assembled_ch = <<>>
    /\ net = {}
    /\ seg_src = <<>> /\ seg_last = NoCall
    /\ rx_encrypt = FALSE /\ recv_rx = <<>> /\ workers = <<>>
    /\ segment_chunks = <<>> /\ segment_total_chunks = <<>>
    /\ assembled_segments = {} /\ decrypted_segments = <<>> /\ rx_hist = <<>>
    /\ srv = <<>> /\ cli = <<>> /\ srv_recv_rx = <<>>
    /\ CipherIdle /\ CcIdle /\ PmIdle /\ XfIdle

\* ReceiverInner::handle_chunk with handle_segment_complete
LrHandleChunk(chunk) ==
    /\ Len(assembled_ch) < MaxRxArrivals
    /\ LET segment_id == chunk.segment_id
           state == IF segment_id \in DOMAIN seg THEN seg[segment_id]
                    ELSE new_for_receive(segment_id, chunk.segment_size, chunk.total_chunks)
           r == insert_chunk(state, chunk)
       IN  IF is_complete(r.seg)
           THEN /\ seg' = [i \in DOMAIN seg \ {segment_id} |-> seg[i]]
                /\ net' = net \cup {[frame |-> "SegmentComplete", segment_id |-> segment_id]}
                /\ assembled_ch' = Append(assembled_ch, <<segment_id, into_data(r.seg)>>)
           ELSE /\ seg' = [i \in DOMAIN seg \cup {segment_id} |->
                              IF i = segment_id THEN r.seg ELSE seg[i]]
                /\ UNCHANGED <<net, assembled_ch>>
    /\ UNCHANGED <<LrFrame, LrRxRest>>

\* ReceiverInner::send_nacks; due: the segments whose last NACK is nack_timeout_ms
\* old and which are not both under half received and younger than 100 ms;
\* expired: those created more than segment_timeout_ms ago
LrSendNacks(due, expired) ==
    /\ net' = net \cup {NackDatagram(s, ascending(missing_chunk_ids(seg[s]))) :
                           s \in {d \in due : missing_chunk_ids(seg[d]) # {}}}
    /\ seg' = [i \in DOMAIN seg \ expired |-> seg[i]]
    /\ UNCHANGED <<assembled_ch, LrFrame, LrRxRest>>

LrNext ==
    \/ \E chunk \in LrPool : LrHandleChunk(chunk)
    \/ \E due \in SUBSET DOMAIN seg, expired \in SUBSET DOMAIN seg : LrSendNacks(due, expired)

SpecLibReceiver == LrInit /\ [][LrNext]_vars

LrCompleted == {assembled_ch[k][1] : k \in 1..Len(assembled_ch)}

\* C15: once a segment id has completed, a later chunk carrying it is ignored: the
\* id gets no new per-segment state (so no NACK either) and is not delivered on
\* the completed channel a second time.
C15_CompletedIgnored ==
    /\ LrCompleted \cap DOMAIN seg = {}
    /\ \A i, j \in 1..Len(assembled_ch) : i # j => assembled_ch[i][1] # assembled_ch[j][1]


\* C16: every Nack frame taken from the example sender's receive queue after
\* the handshake for a cached segment, the initial transmission included, is
\* handed to the NACK workers, which enqueue its cached chunks as retransmits.
C16_NackAlwaysServed ==
    [][(/\ srv_recv_rx # <<>>
        /\ Head(srv_recv_rx).frame = "Nack"
        /\ Head(srv_recv_rx).segment_id \in DOMAIN chunks_cache
        /\ srv_recv_rx' = Tail(srv_recv_rx))
           => nack_ch' = Append(nack_ch, Head(srv_recv_rx))]_vars


\* the queues _send_task may take its next frame from.  q holds the priority
\* and the data queue and where the task is in its loop: at `try_recv` it takes
\* a waiting priority frame; at `select!` it takes from a queue that has a
\* frame, and when both have one the first branch with `biased;` and any
\* branch without it
send_task_sources(q, biased) ==
    IF q.writer = "try_recv" THEN (IF q.priority # <<>> THEN {"priority"} ELSE {"none"})
    ELSE IF q.priority # <<>> /\ q.data # <<>>
    THEN (IF biased THEN {"priority"} ELSE {"priority", "data"})
    ELSE IF q.priority # <<>> THEN {"priority"}
    ELSE IF q.data # <<>> THEN {"data"}
    ELSE {}

\* one step of _send_task's loop that takes its frame from `source` ("none":
\* try_recv found the priority queue empty and the task goes on to `select!`)
send_task_step(q, source) ==
    CASE source = "priority" -> [q EXCEPT !.priority = Tail(@), !.writer = "try_recv"]
      [] source = "data" -> [q EXCEPT !.data = Tail(@), !.writer = "try_recv"]
      [] source = "none" -> [q EXCEPT !.writer = "select"]


----------------------------------------------------------------------------
(* bin/server.rs main: one receive loop that answers Init, Nack,            *)
(* SegmentComplete and Close, the transmit loops it spawns and the send    *)
(* task.  srv holds the spawned loops (each with its segment_id and        *)
(* offset), the Init frames received and the fresh segments produced so    *)
(* far; chunks_cache is segment_cache; net holds the two send queues.      *)

\* the file and the sizes the server was started with; redundancy in percent
BsInputs ==
    [data : {[i \in 1..MaxSegLen |-> i]}, chunk_size : 1..MaxChunkSize,
     segment_size : {MaxChunkSize}, redundancy : {0, 15}]

\* the frames the peer sends to the server
BsFrames ==
    {InitDatagram, [frame |-> "SegmentComplete"], [frame |-> "Close"]}
    \cup {NackDatagram(s, ids) : s \in 1..MaxSendCalls, ids \in {<<0>>, <<1, 0>>}}

BsFrame == <<SegVars, CipherVars, CcVars, PmVars, RxVars, cli, received_data>>

BsInit ==
    /\ xfer_in \in BsInputs
    /\ srv = [pc |-> "serving", tasks |-> <<>>, inits |-> 0, fresh |-> <<>>]
    /\ chunks_cache = <<>>
    /\ net = [priority |-> <<>>, data |-> <<>>, writer |-> "try_recv"]
    /\ cli = <<>> /\ srv_recv_rx = <<>> /\ nack_ch = <<>> /\ received_data = <<>>
    /\ SegIdle /\ CipherIdle /\ CcIdle /\ PmIdle /\ RxIdle

\* `data_tx.send(..).await` waits while the data queue is full
BsRoom(n) == Len(net.data) + n <= MaxDataQueue

\* a datagram of the peer arrives at the server's socket
BsPeerSend(frame) ==
    /\ Len(srv_recv_rx) < MaxSocket
    /\ IsInit(frame) => srv.inits < MaxInits
    /\ srv_recv_rx' = Append(srv_recv_rx, frame)
    /\ srv' = IF IsInit(frame) THEN [srv EXCEPT !.inits = @ + 1] ELSE srv
    /\ UNCHANGED <<xfer_in, chunks_cache, net, nack_ch, BsFrame>>

\* the receive loop takes an Init: InitAck on the priority queue, and a new
\* transmit loop is spawned
BsRecvInit ==
    /\ srv_recv_rx # <<>> /\ IsInit(Head(srv_recv_rx))
    /\ srv_recv_rx' = Tail(srv_recv_rx)
    /\ net' = [net EXCEPT !.priority = Append(@, InitAckDatagram)]
    /\ srv' = [srv EXCEPT !.tasks = Append(@, [segment_id |-> 1, offset |-> 0])]
    /\ UNCHANGED <<xfer_in, chunks_cache, nack_ch, BsFrame>>

\* one iteration of a transmit loop: cache the segment, enqueue its chunks
\* and the sampled redundant ones
BsTransmit(t, sample) ==
    /\ t \in DOMAIN srv.tasks
    /\ srv.tasks[t].offset < Len(xfer_in.data)
    /\ LET segment_id == srv.tasks[t].segment_id
           offset == srv.tasks[t].offset
           end == Min(offset + xfer_in.segment_size, Len(xfer_in.data))
           segment_data == SubSeq(xfer_in.data, offset + 1, end)
           chunks == split_into_chunks(xfer_in.chunk_size, segment_id, segment_data, 0)
       IN  /\ \A k \in DOMAIN sample : sample[k] \in 1..Len(chunks)
           /\ Len(sample) = (Len(chunks) * xfer_in.redundancy + 99) \div 100
           /\ BsRoom(Len(chunks) + Len(sample))
           /\ chunks_cache' = [i \in DOMAIN chunks_cache \cup {segment_id} |->
                                  IF i = segment_id THEN segment_data ELSE chunks_cache[i]]
           /\ net' = [net EXCEPT !.data =
                         @ \o [i \in 1..Len(chunks) |-> Chunk_to_bytes(chunks[i])]
                           \o [k \in 1..Len(sample) |->
                                  Chunk_to_bytes(create_redundant_chunks(chunks, sample)[k])]]
           /\ srv' = [srv EXCEPT !.tasks[t] = [segment_id |-> segment_id + 1, offset |-> end],
                                 !.fresh = Append(@, segment_id)]
    /\ UNCHANGED <<xfer_in, srv_recv_rx, nack_ch, BsFrame>>

\* the receive loop takes a Nack and spawns a retransmit task for it
BsRecvNack ==
    /\ srv_recv_rx # <<>> /\ Head(srv_recv_rx).frame = "Nack"
    /\ Len(nack_ch) < MaxSocket
    /\ srv_recv_rx' = Tail(srv_recv_rx)
    /\ nack_ch' = Append(nack_ch, Head(srv_recv_rx))
    /\ UNCHANGED <<xfer_in, srv, chunks_cache, net, BsFrame>>

\* a retransmit task: the listed chunks of the cached segment go on the data
\* queue
BsRetransmit(k) ==
    /\ k \in DOMAIN nack_ch
    /\ LET nack == nack_ch[k]
           again == IF nack.segment_id \in DOMAIN chunks_cache
                    THEN retransmit([i \in {nack.segment_id} |->
                                        split_into_chunks(xfer_in.chunk_size, nack.segment_id,
                                                          chunks_cache[nack.segment_id], 0)],
                                    nack)
                    ELSE <<>>
       IN  /\ BsRoom(Len(again))
           /\ net' = [net EXCEPT !.data = @ \o again]
    /\ nack_ch' = [i \in 1..(Len(nack_ch) - 1) |-> IF i < k THEN nack_ch[i] ELSE nack_ch[i + 1]]
    /\ UNCHANGED <<xfer_in, srv, chunks_cache, srv_recv_rx, BsFrame>>

\* the receive loop takes a SegmentComplete or a Close: nothing else changes
BsRecvOther ==
    /\ srv_recv_rx # <<>> /\ Head(srv_recv_rx).frame \in {"SegmentComplete", "Close"}
    /\ srv_recv_rx' = Tail(srv_recv_rx)
    /\ UNCHANGED <<xfer_in, srv, chunks_cache, net, nack_ch, BsFrame>>

\* _send_task: `try_recv` on the priority queue, then `select!` (not biased)
\* over both queues
BsSendTask(source) ==
    /\ source \in send_task_sources(net, FALSE)
    /\ net' = send_task_step(net, source)
    /\ UNCHANGED <<xfer_in, srv, chunks_cache, srv_recv_rx, nack_ch, BsFrame>>

BsNext ==
    \/ \E frame \in BsFrames : BsPeerSend(frame)
    \/ BsRecvInit
    \/ \E t \in 1..MaxInits, sample \in SeqsUpTo(1..MaxChunkSize, 1) : BsTransmit(t, sample)
    \/ BsRecvNack
    \/ \E k \in 1..MaxSocket : BsRetransmit(k)
    \/ BsRecvOther
    \/ \E source \in {"priority", "data", "none"} : BsSendTask(source)

SpecBinServer == BsInit /\ [][BsNext]_vars

\* C17: within one peer session, however many Init frames arrive, exactly one
\* transmit loop runs and the fresh chunks of each segment id are produced and
\* enqueued exactly once.
C17_OneTransmitLoop ==
    \A i, j \in DOMAIN srv.fresh : i # j => srv.fresh[i] # srv.fresh[j]

\* C33: the writer task drains the priority queue before the data queue: at
\* every dequeue decision, if a control frame is waiting in the priority queue
\* the next frame written to the socket is a priority frame, never a data frame.
C33_PriorityBeforeData ==
    [][(BsSendTask("data") /\ net'.data # net.data) => net.priority = <<>>]_vars



----------------------------------------------------------------------------
(* The wire codecs on the byte level.  bincode writes the fields of a       *)
(* struct in declaration order: unsigned integers little-endian in their   *)
(* full width, a bool as one byte 0 or 1, an enum as the u32 index of its  *)
(* variant, a [u8; n] as its n bytes, a Vec<u32> as a u64 length followed  *)
(* by its elements; an f32 is its four IEEE-754 bytes, kept here as the    *)
(* unsigned value of its bit pattern.  A layout lists a struct's fields.   *)

RECURSIVE to_le_bytes(_, _)
\* uN::to_le_bytes for a value n and N = 8 * width
to_le_bytes(n, width) ==
    IF width = 0 THEN <<>> ELSE <<n % 256>> \o to_le_bytes(n \div 256, width - 1)

\* whether the little-endian bytes hold a value below 2^31
fits_int(bytes) == \A i \in 4..Len(bytes) : bytes[i] = 0 \/ (i = 4 /\ bytes[i] < 128)

RECURSIVE le_value(_)
le_value(bytes) ==
    IF bytes = <<>> THEN 0 ELSE bytes[1] + 256 * le_value(Tail(bytes))

\* uN::from_le_bytes; a value of 2^31 or more is kept as its bytes
from_le_bytes(bytes) ==
    IF fits_int(bytes) THEN le_value(SubSeq(bytes, 1, Min(Len(bytes), 4)))
    ELSE [wide |-> bytes]

U(name, width) == [name |-> name, kind |-> "uint", n |-> width]
B(name) == [name |-> name, kind |-> "bool", n |-> 1]
A(name, len) == [name |-> name, kind |-> "array", n |-> len]
V(name) == [name |-> name, kind |-> "vec_u32", n |-> 4]
E(name) == [name |-> name, kind |-> "enum", n |-> 4]

\* `enum MessageType`, in declaration order
MessageTypes ==
    <<"Chunk", "Nack", "SegmentComplete", "Init", "InitAck", "Close", "Heartbeat",
      "HeartbeatAck", "Stats", "FlowControl">>

variant_index(msg_type) == CHOOSE i \in DOMAIN MessageTypes : MessageTypes[i] = msg_type

RECURSIVE concat_le(_, _)
concat_le(values, width) ==
    IF values = <<>> THEN <<>>
    ELSE to_le_bytes(Head(values), width) \o concat_le(Tail(values), width)

\* the bytes bincode writes for one field
serialize_field(field, v) ==
    CASE field.kind = "uint" -> to_le_bytes(v, field.n)
      [] field.kind = "bool" -> <<IF v THEN 1 ELSE 0>>
      [] field.kind = "array" -> v
      [] field.kind = "enum" -> to_le_bytes(variant_index(v) - 1, field.n)
      [] field.kind = "vec_u32" -> to_le_bytes(Len(v), 8) \o concat_le(v, field.n)

RECURSIVE bincode_serialize(_, _)
\* bincode::serialize of a struct with this layout
bincode_serialize(layout, value) ==
    IF layout = <<>> THEN <<>>
    ELSE serialize_field(Head(layout), value[Head(layout).name])
             \o bincode_serialize(Tail(layout), value)

\* what bincode reads for one field from the front of bytes: the value and
\* the number of bytes taken, or a failure
deserialize_field(field, bytes) ==
    LET fixed == IF field.kind = "vec_u32" THEN 8 ELSE field.n
    IN  IF Len(bytes) < fixed THEN [ok |-> FALSE]
        ELSE CASE field.kind = "uint" ->
                     [ok |-> TRUE, v |-> from_le_bytes(SubSeq(bytes, 1, field.n)),
                      taken |-> field.n]
               [] field.kind = "bool" ->
                     IF bytes[1] \in {0, 1}
                     THEN [ok |-> TRUE, v |-> bytes[1] = 1, taken |-> 1]
                     ELSE [ok |-> FALSE]
               [] field.kind = "array" ->
                     [ok |-> TRUE, v |-> SubSeq(bytes, 1, field.n), taken |-> field.n]
               [] field.kind = "enum" ->
                     LET index == from_le_bytes(SubSeq(bytes, 1, field.n))
                     IN  IF fits_int(SubSeq(bytes, 1, field.n)) /\ index < Len(MessageTypes)
                         THEN [ok |-> TRUE, v |-> MessageTypes[index + 1], taken |-> field.n]
                         ELSE [ok |-> FALSE]
               [] field.kind = "vec_u32" ->
                     LET len == from_le_bytes(SubSeq(bytes, 1, 8))
                     IN  IF ~fits_int(SubSeq(bytes, 1, 8)) \/ Len(bytes) < 8 + field.n * len
                         THEN [ok |-> FALSE]
                         ELSE [ok |-> TRUE,
                               v |-> [i \in 1..len |->
                                         from_le_bytes(SubSeq(bytes, 8 + field.n * (i - 1) + 1,
                                                              8 + field.n * i))],
                               taken |-> 8 + field.n * len]

RECURSIVE bincode_deserialize(_, _)
\* bincode::deserialize of a struct with this layout from the front of bytes;
\* bytes that follow the struct are ignored
bincode_deserialize(layout, bytes) ==
    IF layout = <<>> THEN [ok |-> TRUE, value |-> <<>>]
    ELSE LET first == deserialize_field(Head(layout), bytes)
         IN  IF ~first.ok THEN [ok |-> FALSE]
             ELSE LET rest == bincode_deserialize(Tail(layout),
                                                  SubSeq(bytes, first.taken + 1, Len(bytes)))
                  IN  IF ~rest.ok THEN [ok |-> FALSE]
                      ELSE [ok |-> TRUE,
                            value |-> (Head(layout).name :> first.v) @@ rest.value]

\* `struct ChunkHeader`
ChunkHeaderLayout ==
    <<U("segment_id", 8), U("chunk_id", 4), U("total_chunks", 4), U("offset", 4),
      U("data_len", 2), U("segment_size", 4), U("nic_id", 1), B("is_redundant"),
      U("crc32", 4), U("timestamp_us", 8)>>

\* `struct MessageHeader`
MessageHeaderLayout == <<U("magic", 4), U("version", 1), E("msg_type"), U("payload_len", 4)>>

\* `struct NackMessage`, `struct InitMessage`, `struct InitAckMessage`,
\* `struct FlowControlMessage`, `struct SegmentCompleteMessage`
MessageLayout(msg_type) ==
    CASE msg_type = "Nack" ->
             <<U("segment_id", 8), V("missing_chunk_ids"), U("receive_ratio", 4),
               U("nic_id", 1)>>
      [] msg_type = "Init" ->
             <<A("client_public_key", 32), B("encryption_enabled"), U("nic_count", 1),
               U("chunk_size", 2), U("segment_size", 4), U("buffer_size", 4),
               U("protocol_version", 1), U("timestamp_us", 8)>>
      [] msg_type = "InitAck" ->
             <<A("server_public_key", 32), A("session_key", 32), B("encryption_enabled"),
               U("nic_count", 1), U("chunk_size", 2), U("segment_size", 4),
               U("redundancy_ratio", 4), U("total_file_size", 8), U("total_segments", 8),
               U("chunks_per_segment", 4), U("protocol_version", 1),
               U("client_timestamp_us", 8), U("server_timestamp_us", 8)>>
      [] msg_type = "FlowControl" ->
             <<U("buffer_available", 4), U("last_completed_segment", 8),
               U("segments_in_progress", 4), U("loss_rate", 4), U("processing_rate", 4),
               U("suggested_rate", 4)>>
      [] msg_type = "SegmentComplete" ->
             <<U("segment_id", 8), U("total_chunks_received", 4),
               U("duplicates_received", 4), U("elapsed_ms", 8)>>

\* lib.rs MAGIC_NUMBER 0x53465050 and PROTOCOL_VERSION
MAGIC_NUMBER == 1397117008
PROTOCOL_VERSION == 1

\* MessageHeader::new
MessageHeader_new(msg_type, payload_len) ==
    [magic |-> MAGIC_NUMBER, version |-> PROTOCOL_VERSION, msg_type |-> msg_type,
     payload_len |-> payload_len]

\* the header size the comment in NackMessage::from_bytes assumes (a mutant)
header_size_one_byte_type(header) == 4 + 1 + 1 + 4

\* `bincode::serialize(&header)...len()` in the from_bytes functions
header_size(header) == Len(bincode_serialize(MessageHeaderLayout, header))

\* the shortest input each from_bytes accepts
min_len(msg_type) ==
    CASE msg_type = "Nack" -> 14
      [] msg_type = "Init" -> 10
      [] msg_type = "InitAck" -> 10
      [] msg_type = "FlowControl" -> 16

\* Chunk::to_bytes on the byte level
Chunk_serialize(chunk) ==
    LET header_bytes == bincode_serialize(ChunkHeaderLayout, chunk.header)
    IN  to_le_bytes(Len(header_bytes) % 65536, 2) \o header_bytes \o chunk.data

\* Chunk::from_bytes on the byte level
Chunk_deserialize(bytes) ==
    IF Len(bytes) < 2 THEN [parsed |-> FALSE]
    ELSE LET header_len == from_le_bytes(SubSeq(bytes, 1, 2))
         IN  IF Len(bytes) < 2 + header_len THEN [parsed |-> FALSE]
             ELSE LET header == bincode_deserialize(ChunkHeaderLayout,
                                                    SubSeq(bytes, 3, 2 + header_len))
                  IN  IF ~header.ok THEN [parsed |-> FALSE]
                      ELSE [parsed |-> TRUE,
                            value |-> [header |-> header.value,
                                       data |-> SubSeq(bytes, 2 + header_len + 1, Len(bytes))]]

\* NackMessage / InitMessage / InitAckMessage / FlowControlMessage ::to_bytes
Message_to_bytes(msg_type, m) ==
    LET payload == bincode_serialize(MessageLayout(msg_type), m)
        header == MessageHeader_new(msg_type, Len(payload))
    IN  bincode_serialize(MessageHeaderLayout, header) \o payload

\* NackMessage / InitMessage / InitAckMessage / FlowControlMessage ::from_bytes
Message_from_bytes(msg_type, bytes) ==
    IF Len(bytes) < min_len(msg_type) THEN [parsed |-> FALSE]
    ELSE LET header == bincode_deserialize(MessageHeaderLayout, bytes)
         IN  IF ~header.ok THEN [parsed |-> FALSE]
             ELSE IF header.value.msg_type # msg_type THEN [parsed |-> FALSE]
             ELSE IF Len(bytes) < header_size(header.value) THEN [parsed |-> FALSE]
             ELSE LET m == bincode_deserialize(
                               MessageLayout(msg_type),
                               SubSeq(bytes, header_size(header.value) + 1, Len(bytes)))
                  IN  IF m.ok THEN [parsed |-> TRUE, value |-> m.value]
                      ELSE [parsed |-> FALSE]

to_bytes(x) ==
    IF x.kind = "Chunk" THEN Chunk_serialize(x.value) ELSE Message_to_bytes(x.kind, x.value)

from_bytes(kind, bytes) ==
    IF kind = "Chunk" THEN Chunk_deserialize(bytes) ELSE Message_from_bytes(kind, bytes)

\* the values the codecs are applied to; an f32 is given by its bit pattern
\* (0.5 is 0x3F000000, 100.0 is 0x42C80000)
CodecChunks ==
    {[kind |-> "Chunk",
      value |-> [header |-> [segment_id |-> s, chunk_id |-> c, total_chunks |-> 65537,
                             offset |-> c * 2, data_len |-> l, segment_size |-> 70000,
                             nic_id |-> 0, is_redundant |-> r, crc32 |-> crc32(d),
                             timestamp_us |-> 1000000],
                 data |-> d]] :
        s \in {1, 256}, c \in {0, 65536}, r \in BOOLEAN,
        d \in {<<>>, <<0>>, <<255, 1>>}, l \in {0, 2}}

CodecNacks ==
    {[kind |-> "Nack",
      value |-> [segment_id |-> s, missing_chunk_ids |-> ids, receive_ratio |-> ratio,
                 nic_id |-> nic]] :
        s \in {1, 256}, ids \in {<<>>, <<0>>, <<1, 0>>, <<65536>>},
        ratio \in {0, 1056964608}, nic \in {0, 255}}

CodecInits ==
    {[kind |-> "Init",
      value |-> [client_public_key |-> key, encryption_enabled |-> e, nic_count |-> 1,
                 chunk_size |-> 0, segment_size |-> 0, buffer_size |-> 2 * 1024 * 1024,
                 protocol_version |-> PROTOCOL_VERSION, timestamp_us |-> t]] :
        key \in {[i \in 1..32 |-> 0], [i \in 1..32 |-> i]}, e \in BOOLEAN,
        t \in {0, 1000000}}

CodecInitAcks ==
    {[kind |-> "InitAck",
      value |-> [server_public_key |-> [i \in 1..32 |-> 0],
                 session_key |-> [i \in 1..32 |-> 0], encryption_enabled |-> e,
                 nic_count |-> 1, chunk_size |-> 1100, segment_size |-> 32768,
                 redundancy_ratio |-> 1056964608, total_file_size |-> size,
                 total_segments |-> (size + 32767) \div 32768, chunks_per_segment |-> 29,
                 protocol_version |-> PROTOCOL_VERSION, client_timestamp_us |-> t,
                 server_timestamp_us |-> 1000000]] :
        e \in BOOLEAN, size \in {0, 3, 70000}, t \in {0, 999999}}

CodecFlowControls ==
    {[kind |-> "FlowControl",
      value |-> [buffer_available |-> b, last_completed_segment |-> s,
                 segments_in_progress |-> 0, loss_rate |-> 0, processing_rate |-> rate,
                 suggested_rate |-> rate]] :
        b \in {0, 1000}, s \in {0, 256}, rate \in {0, 1120403456}}

CodecInputs == CodecChunks \cup CodecNacks \cup CodecInits \cup CodecInitAcks
                   \cup CodecFlowControls

\* In this specification seg_src is the value in hand, seg the frame it was
\* encoded to and seg_last the latest codec call with its result.
CodecFrame == <<CipherVars, CcVars, PmVars, RxVars, HsVars, XfVars>>

CodecInit ==
    /\ seg_src \in CodecInputs
    /\ seg = <<>>
    /\ seg_last = NoCall
    /\ CipherIdle /\ CcIdle /\ PmIdle /\ RxIdle /\ HsIdle /\ XfIdle

\* X::to_bytes of the value in hand
CodecEncode ==
    /\ ~seg_last.called
    /\ seg' = to_bytes(seg_src)
    /\ seg_last' = [called |-> TRUE, op |-> "to_bytes"]
    /\ UNCHANGED <<seg_src, CodecFrame>>

\* X::from_bytes of the frame
CodecDecode ==
    /\ seg_last.called /\ seg_last.op = "to_bytes"
    /\ seg_last' = [called |-> TRUE, op |-> "from_bytes",
                    result |-> from_bytes(seg_src.kind, seg)]
    /\ UNCHANGED <<seg, seg_src, CodecFrame>>

\* X::to_bytes of what from_bytes returned
CodecReencode ==
    /\ seg_last.called /\ seg_last.op = "from_bytes" /\ seg_last.result.parsed
    /\ seg_last' = [called |-> TRUE, op |-> "reencode",
                    bytes |-> to_bytes([kind |-> seg_src.kind,
                                        value |-> seg_last.result.value])]
    /\ UNCHANGED <<seg, seg_src, CodecFrame>>

CodecNext == CodecEncode \/ CodecDecode \/ CodecReencode

SpecCodec == CodecInit /\ [][CodecNext]_vars

\* C19: from_bytes of to_bytes returns the chunk or message that was encoded,
\* with the same header fields and data, and encoding the decoded value again
\* gives the original frame.
C19_CodecRoundTrip ==
    /\ (seg_last.called /\ seg_last.op = "from_bytes")
           => seg_last.result = [parsed |-> TRUE, value |-> seg_src.value]
    /\ (seg_last.called /\ seg_last.op = "reencode") => seg_last.bytes = seg

\* C19 witness: a Nack listing two chunk ids and a chunk with data, a chunk id
\* above 16 bits and the redundant flag set have been decoded from their frames
C19_Witness ==
    /\ seg_last.called /\ seg_last.op = "reencode"
    /\ \/ seg_src.kind = "Nack" /\ Len(seg_src.value.missing_chunk_ids) = 2
       \/ /\ seg_src.kind = "Chunk" /\ seg_src.value.data # <<>>
          /\ seg_src.value.header.chunk_id > 65535 /\ seg_src.value.header.is_redundant
    /\ Len(seg) > 13


----------------------------------------------------------------------------
(* crypto.rs on the byte level: SegmentCipher::encrypt_segment and          *)
(* decrypt_segment between two sessions established from each other's      *)
(* public keys.  ChaCha20-Poly1305 is modelled as a keystream added to the  *)
(* plaintext byte by byte and a 16-byte tag, both functions of the key, the *)
(* nonce and the position; a ciphertext whose tag does not match is        *)
(* refused.  seg_src is the latest plaintext with its segment id and       *)
(* nonce, seg the latest output of encrypt_segment, seg_last the latest    *)
(* call, cipher_nonces the latest nonce.                                   *)

NONCE_SIZE == 12
TAG_SIZE == 16

RECURSIVE SumBytes(_)
SumBytes(bytes) == IF bytes = <<>> THEN 0 ELSE (Head(bytes) + SumBytes(Tail(bytes))) % 65521

\* the key ChaCha20Poly1305::new_from_slice holds, as a number
key_seed(shared_secret) ==
    LET a == CHOOSE x \in shared_secret : \A y \in shared_secret : x <= y
        b == CHOOSE x \in shared_secret : \A y \in shared_secret : x >= y
    IN  a * 16 + b

\* the nonce array generate_nonce fills: 8 bytes of segment id, 4 bytes of the
\* truncated counter, little-endian
nonce_array(nonce) ==
    to_le_bytes(nonce.segment_id, 8) \o to_le_bytes(nonce.counter[1], 2)
        \o to_le_bytes(nonce.counter[2], 2)

keystream(key, nonce_bytes, i) == (key_seed(key) * 5 + SumBytes(nonce_bytes) * 3 + i * 7 + 1) % 256

\* the Poly1305 tag of a ciphertext
aead_tag(key, nonce_bytes, body) ==
    to_le_bytes(crc32(<<key_seed(key)>> \o nonce_bytes \o body), TAG_SIZE)

\* Aead::encrypt: the ciphertext followed by the tag
aead_encrypt(key, nonce_bytes, plaintext) ==
    LET body == [i \in 1..Len(plaintext) |-> (plaintext[i] + keystream(key, nonce_bytes, i)) % 256]
    IN  body \o aead_tag(key, nonce_bytes, body)

\* Aead::decrypt
aead_decrypt(key, nonce_bytes, ciphertext) ==
    IF Len(ciphertext) < TAG_SIZE THEN [ok |-> FALSE]
    ELSE LET body == SubSeq(ciphertext, 1, Len(ciphertext) - TAG_SIZE)
             tag == SubSeq(ciphertext, Len(ciphertext) - TAG_SIZE + 1, Len(ciphertext))
         IN  IF tag # aead_tag(key, nonce_bytes, body) THEN [ok |-> FALSE]
             ELSE [ok |-> TRUE,
                   plaintext |-> [i \in 1..Len(body) |->
                                     (body[i] + 256 - keystream(key, nonce_bytes, i)) % 256]]

\* SegmentCipher::encrypt_segment: the output, the nonce used and the counter
\* after the call
encrypt_segment(key, counter, segment_id, plaintext) ==
    LET g == generate_nonce(counter, segment_id)
        nonce_bytes == nonce_array(g.nonce)
    IN  [result |-> nonce_bytes \o aead_encrypt(key, nonce_bytes, plaintext),
         nonce_bytes |-> nonce_bytes, nonce |-> g.nonce, counter |-> g.counter]

\* SegmentCipher::decrypt_segment
decrypt_segment(key, encrypted) ==
    IF Len(encrypted) < NONCE_SIZE + TAG_SIZE THEN [ok |-> FALSE]
    ELSE aead_decrypt(key, SubSeq(encrypted, 1, NONCE_SIZE),
                      SubSeq(encrypted, NONCE_SIZE + 1, Len(encrypted)))

\* the two sessions of test_encrypt_decrypt, public keys 1 and 2
alice_session == establish(1, 2)
bob_session == establish(2, 1)

\* the plaintexts: empty, one byte, and the longest ones
SealPlaintexts ==
    {<<>>, <<MaxByte>>} \cup [1..MaxSegLen -> {0, MaxByte}]

SealFrame == <<CcVars, PmVars, RxVars, HsVars, XfVars>>

SealInit ==
    /\ nonce_counter = counter_zero
    /\ cipher_nonces = <<>>
    /\ SegIdle /\ CcIdle /\ PmIdle /\ RxIdle /\ HsIdle /\ XfIdle

\* alice_session.encrypt(segment_id, plaintext)
SealEncrypt(segment_id, plaintext) ==
    LET e == encrypt_segment(alice_session.key, nonce_counter, segment_id, plaintext)
    IN  /\ nonce_counter.lo < MaxSealCalls \/ nonce_counter.lo = U16 - 1
        /\ nonce_counter.hi < MaxCounterHigh
        /\ seg' = e.result
        /\ seg_src' = [segment_id |-> segment_id, plaintext |-> plaintext,
                       nonce_bytes |-> e.nonce_bytes]
        /\ seg_last' = [called |-> TRUE, op |-> "encrypt"]
        /\ cipher_nonces' = <<e.nonce>>
        /\ nonce_counter' = e.counter
        /\ UNCHANGED SealFrame

\* bob_session.decrypt(&encrypted)
SealDecrypt ==
    /\ seg_last.called /\ seg_last.op = "encrypt"
    /\ seg_last' = [called |-> TRUE, op |-> "decrypt",
                    result |-> decrypt_segment(bob_session.key, seg)]
    /\ UNCHANGED <<seg, seg_src, CipherVars, SealFrame>>

SealNext ==
    \/ \E segment_id \in 1..MaxCipherSegId, plaintext \in SealPlaintexts :
           SealEncrypt(segment_id, plaintext)
    \/ EncryptBurst
    \/ SealDecrypt

SpecSeal == SealInit /\ [][SealNext]_vars

\* C21: encrypt of a plaintext of N bytes returns 12 + N + 16 bytes that start
\* with the nonce used, and decrypt of that output on the peer session
\* returns the plaintext.
C21_SealOpenRoundTrip ==
    seg_last.called =>
        /\ Len(seg) = NONCE_SIZE + Len(seg_src.plaintext) + TAG_SIZE
        /\ SubSeq(seg, 1, NONCE_SIZE) = seg_src.nonce_bytes
        /\ seg_last.op = "decrypt" =>
               seg_last.result = [ok |-> TRUE, plaintext |-> seg_src.plaintext]

\* C21 witness: a later encrypt call of the session (non-zero counter in the
\* nonce) on a plaintext of full length has been opened by the peer
C21_Witness ==
    /\ seg_last.called /\ seg_last.op = "decrypt"
    /\ Len(seg_src.plaintext) = MaxSegLen
    /\ seg_src.plaintext # SubSeq(seg, NONCE_SIZE + 1, NONCE_SIZE + MaxSegLen)
    /\ SubSeq(seg, 9, NONCE_SIZE) # <<0, 0, 0, 0>>
    /\ seg_last.result.ok


----------------------------------------------------------------------------
(* SegmentBuilder::split_into_chunks on the level of lengths: the payload  *)
(* of a chunk is given by the slice of the data it copies, so that chunk   *)
(* sizes beyond the 16 bits of ChunkHeader.data_len can be followed.  The  *)
(* sizes stay below 2^31, where the `as u32` casts change nothing.         *)

\* `data.chunks(chunk_size)`: the lengths of the slices, in order
chunks_lens(chunk_size, len) ==
    [i \in 1..((len + chunk_size - 1) \div chunk_size) |->
        Min(chunk_size, len - (i - 1) * chunk_size)]

\* `data.len() as u16`
as_u16(n) == n % 65536

\* Chunk::new for the slice of `len` bytes at `offset`: the header, with the
\* checksum given by the slice it was computed over
ChunkHeader_new(segment_id, chunk_id, total_chunks, offset, segment_size, len, nic_id, is_redundant) ==
    [segment_id |-> segment_id, chunk_id |-> chunk_id, total_chunks |-> total_chunks,
     offset |-> offset, data_len |-> as_u16(len), segment_size |-> segment_size,
     nic_id |-> nic_id, is_redundant |-> is_redundant,
     crc32 |-> [crc_of |-> <<offset, len>>], data |-> <<offset, len>>]

\* SegmentBuilder::split_into_chunks
split_headers(chunk_size, segment_id, len, nic_id) ==
    LET total_chunks == (len + chunk_size - 1) \div chunk_size
        slices == chunks_lens(chunk_size, len)
    IN  [idx \in 1..Len(slices) |->
            ChunkHeader_new(segment_id, idx - 1, total_chunks, (idx - 1) * chunk_size, len,
                            slices[idx], nic_id, FALSE)]

\* the chunk sizes and data lengths split_into_chunks is called with: small
\* ones, the defaults, and sizes around 2^16
SplitSizes == {1, 2, 1200, 65535, 65536, 70000}
SplitInputs ==
    {x \in [chunk_size : SplitSizes, segment_id : 1..MaxCipherSegId,
            len : {0} \cup {c * k + d : c \in SplitSizes, k \in 0..MaxSplitChunks, d \in {0, 1}},
            nic_id : 0..1] :
        x.len <= x.chunk_size * MaxSplitChunks}

SplitFrame == <<CipherVars, CcVars, PmVars, RxVars, HsVars, XfVars>>

SplitInit ==
    /\ seg_src \in SplitInputs
    /\ seg = <<>>
    /\ seg_last = NoCall
    /\ CipherIdle /\ CcIdle /\ PmIdle /\ RxIdle /\ HsIdle /\ XfIdle

\* SegmentBuilder::new(chunk_size).split_into_chunks(segment_id, data, nic_id)
SplitCall ==
    /\ ~seg_last.called
    /\ seg' = split_headers(seg_src.chunk_size, seg_src.segment_id, seg_src.len, seg_src.nic_id)
    /\ seg_last' = [called |-> TRUE]
    /\ UNCHANGED <<seg_src, SplitFrame>>

SplitNext == SplitCall

SpecSplit == SplitInit /\ [][SplitNext]_vars

\* C23: split_into_chunks of L bytes with chunk size c returns ceil(L/c) chunks;
\* chunk i has the given segment_id and nic_id, chunk_id i, offset i*c,
\* data_len min(c, L - i*c), total_chunks ceil(L/c), segment_size L,
\* is_redundant false and the CRC32 of its own data; only the last chunk may be
\* shorter than c.
C23_SplitHeaders ==
    seg_last.called =>
        LET c == seg_src.chunk_size
            L == seg_src.len
            n == (L + c - 1) \div c
        IN  /\ Len(seg) = n
            /\ \A k \in 1..Len(seg) :
                  LET i == k - 1
                  IN  /\ seg[k].segment_id = seg_src.segment_id
                      /\ seg[k].chunk_id = i
                      /\ seg[k].offset = i * c
                      /\ seg[k].data_len = Min(c, L - i * c)
                      /\ seg[k].total_chunks = n
                      /\ seg[k].segment_size = L
                      /\ seg[k].nic_id = seg_src.nic_id
                      /\ seg[k].is_redundant = FALSE
                      /\ seg[k].crc32 = [crc_of |-> seg[k].data]
                      /\ seg[k].data = <<i * c, Min(c, L - i * c)>>
                      /\ k < Len(seg) => seg[k].data[2] = c


----------------------------------------------------------------------------
(* Control frames on the byte level at their readers: the library          *)
(* Sender::handle_message, the example sender's dispatcher and the          *)
(* from_bytes decoders.  A segment id read from a frame is kept as its     *)
(* eight bytes.  srv holds the library Sender's client_addr and cached     *)
(* segment ids and the dispatcher's completed set; seg_src is the latest   *)
(* frame, seg_last the latest call with what it did.                       *)

\* a frame whose magic was altered, and one whose version was altered
bad_magic(bytes) == <<(bytes[1] + 1) % 256>> \o Tail(bytes)
bad_version(bytes) == [bytes EXCEPT ![5] = (bytes[5] + 1) % 256]

CtlMessages ==
    {[kind |-> "SegmentComplete",
      value |-> [segment_id |-> s, total_chunks_received |-> t, duplicates_received |-> 0,
                 elapsed_ms |-> 7]] : s \in 1..MaxSendCalls, t \in {1, MaxChunkSize}}
    \cup {m \in CodecNacks : m.value.segment_id = 1 /\ m.value.nic_id = 0
                                 /\ m.value.missing_chunk_ids = <<1, 0>>}
    \cup {m \in CodecInits : m.value.timestamp_us = 0 /\ ~m.value.encryption_enabled}
    \cup {m \in CodecInitAcks : m.value.total_file_size = 3 /\ m.value.client_timestamp_us = 0}
    \cup {m \in CodecFlowControls : m.value.buffer_available = 1000
                                        /\ m.value.last_completed_segment = 0}

\* the datagrams that reach a reader: each message as encoded, with an altered
\* magic and with an altered version
CtlFrames ==
    {[kind |-> m.kind, value |-> m.value, variant |-> "intact", bytes |-> to_bytes(m)] :
        m \in CtlMessages}
    \cup {[kind |-> m.kind, value |-> m.value, variant |-> "magic",
           bytes |-> bad_magic(to_bytes(m))] : m \in CtlMessages}
    \cup {[kind |-> m.kind, value |-> m.value, variant |-> "version",
           bytes |-> bad_version(to_bytes(m))] : m \in CtlMessages}

\* `bincode::deserialize::<u64>(&data[16..24])`, as the eight bytes read
u64_at_16(data) == SubSeq(data, 17, 24)

\* Sender::handle_control_message: the Sender after the call and what was done
handle_control_message(s, data) ==
    LET header == bincode_deserialize(MessageHeaderLayout, data)
    IN  IF ~header.ok THEN [s |-> s, did |-> "nothing"]
        ELSE CASE header.value.msg_type = "Init" ->
                      [s |-> [s EXCEPT !.client_addr = "peer"], did |-> "InitAck"]
               [] header.value.msg_type = "Nack" ->
                      IF Message_from_bytes("Nack", data).parsed
                      THEN [s |-> s, did |-> "handle_nack"]
                      ELSE [s |-> s, did |-> "nothing"]
               [] header.value.msg_type = "SegmentComplete" ->
                      IF Len(data) <= 16 THEN [s |-> s, did |-> "nothing"]
                      ELSE IF Len(data) < 24 THEN [s |-> s, did |-> "panic"]
                      ELSE [s |-> [s EXCEPT !.segments = @ \ {u64_at_16(data)}],
                            did |-> "remove"]
               [] header.value.msg_type = "Heartbeat" -> [s |-> s, did |-> "HeartbeatAck"]
               [] header.value.msg_type = "Close" ->
                      [s |-> [s EXCEPT !.client_addr = "none"], did |-> "close"]
               [] OTHER -> [s |-> s, did |-> "nothing"]

\* Sender::handle_message
handle_message(s, data) ==
    IF Len(data) < 4 THEN [s |-> s, did |-> "nothing"]
    ELSE IF le_value(SubSeq(data, 1, 4)) # MAGIC_NUMBER
    THEN handle_control_message(s, data)
    ELSE [s |-> s, did |-> "nothing"]

\* the body of dispatcher_task for one datagram
dispatch(s, data) ==
    LET header == bincode_deserialize(MessageHeaderLayout, SubSeq(data, 1, Min(Len(data), 32)))
        nack == Message_from_bytes("Nack", data)
    IN  IF header.ok /\ header.value.msg_type = "Init"
        THEN [s |-> s, did |-> "InitAck"]
        ELSE IF header.ok /\ header.value.msg_type = "SegmentComplete"
        THEN IF Len(data) <= 20 THEN [s |-> s, did |-> "nothing"]
             ELSE IF Len(data) < 24 THEN [s |-> s, did |-> "panic"]
             ELSE [s |-> [s EXCEPT !.completed = @ \cup {u64_at_16(data)}], did |-> "insert"]
        ELSE IF nack.parsed THEN [s |-> s, did |-> "nack_tx"]
        ELSE [s |-> s, did |-> "nothing"]

CtlFrame == <<seg, CipherVars, CcVars, PmVars, RxVars, cli, net, srv_recv_rx, XfVars>>

\* the library Sender after send_data for the segments 1..MaxSendCalls, no
\* client yet, and the dispatcher with nothing completed
CtlInit ==
    /\ srv = [client_addr |-> "none",
              segments |-> {to_le_bytes(id, 8) : id \in 1..MaxSendCalls},
              completed |-> {}]
    /\ seg_src = <<>> /\ seg = <<>> /\ seg_last = NoCall
    /\ cli = <<>> /\ net = <<>> /\ srv_recv_rx = <<>>
    /\ CipherIdle /\ CcIdle /\ PmIdle /\ RxIdle /\ XfIdle

\* the library Sender's run loop receives a datagram
CtlLibHandle(frame) ==
    LET r == handle_message(srv, frame.bytes)
    IN  /\ srv' = r.s
        /\ seg_src' = frame
        /\ seg_last' = [called |-> TRUE, op |-> "handle_message", did |-> r.did, before |-> srv]
        /\ UNCHANGED CtlFrame

\* the example sender's dispatcher receives a datagram
CtlDispatch(frame) ==
    LET r == dispatch(srv, frame.bytes)
    IN  /\ srv' = r.s
        /\ seg_src' = frame
        /\ seg_last' = [called |-> TRUE, op |-> "dispatch", did |-> r.did, before |-> srv]
        /\ UNCHANGED CtlFrame

\* NackMessage / InitMessage / InitAckMessage / FlowControlMessage ::from_bytes
CtlDecode(kind, frame) ==
    /\ seg_src' = frame
    /\ seg_last' = [called |-> TRUE, op |-> "from_bytes", decoder |-> kind,
                    parsed |-> Message_from_bytes(kind, frame.bytes).parsed, before |-> srv]
    /\ UNCHANGED <<srv, CtlFrame>>

CtlNext ==
    \/ \E frame \in CtlFrames : CtlLibHandle(frame)
    \/ \E frame \in CtlFrames : CtlDispatch(frame)
    \/ \E kind \in {"Nack", "Init", "InitAck", "FlowControl"}, frame \in CtlFrames :
           CtlDecode(kind, frame)

SpecControl == CtlInit /\ [][CtlNext]_vars

\* C25: when a SegmentComplete frame encoded by to_bytes for segment s reaches
\* the sender, the sender records exactly s: the library Sender removes s from
\* its cache, the example sender inserts s into its completed set.
C25_CompleteRecordsSegment ==
    (/\ seg_last.called
     /\ seg_src.kind = "SegmentComplete" /\ seg_src.variant = "intact") =>
        LET s == to_le_bytes(seg_src.value.segment_id, 8)
        IN  /\ seg_last.op = "handle_message" =>
                   srv.segments = seg_last.before.segments \ {s}
            /\ seg_last.op = "dispatch" =>
                   srv.completed = seg_last.before.completed \cup {s}


\* C26: Sender.handle_message processes a datagram that begins with the magic
\* number and carries a well-formed Init (the peer address is recorded and an
\* InitAck is sent back), and never processes as a control frame a datagram
\* whose first four bytes are not the magic number.
C26_MagicFramesProcessed ==
    (seg_last.called /\ seg_last.op = "handle_message") =>
        /\ (seg_src.kind = "Init" /\ seg_src.variant = "intact") =>
               (srv.client_addr = "peer" /\ seg_last.did = "InitAck")
        /\ le_value(SubSeq(seg_src.bytes, 1, 4)) # MAGIC_NUMBER =>
               (seg_last.did = "nothing" /\ srv = seg_last.before)

\* C27: NackMessage, InitMessage, InitAckMessage and FlowControlMessage
\* ::from_bytes return no message for a frame whose header magic differs from
\* MAGIC_NUMBER or whose header version differs from PROTOCOL_VERSION.
C27_DecodersRejectBadHeader ==
    (/\ seg_last.called /\ seg_last.op = "from_bytes"
     /\ \/ le_value(SubSeq(seg_src.bytes, 1, 4)) # MAGIC_NUMBER
        \/ seg_src.bytes[5] # PROTOCOL_VERSION) =>
        ~seg_last.parsed


----------------------------------------------------------------------------
(* run_server's _fc_task over the datagrams the socket delivers.  The       *)
(* client sends its bandwidth estimate in a first FlowControl and, every     *)
(* 100 ms, a FlowControl whose processing_rate is its assembled-segment      *)
(* count; a datagram may be lost on the way.  cli is the client (what it     *)
(* has sent, how many segments it has assembled), srv the task's locals,     *)
(* cc_hist what the task did with each FlowControl it received.              *)

MaxFcFrames == 3

\* the bandwidth estimates run_client computes: 50..500 MB/s, 100 without RTT
FcEstimates == {50, 100, 500}

\* the body of _fc_task's loop for one FlowControl frame: the locals and the
\* CongestionControl after it, and what was done with the frame
fc_task_step(s, c, processing_rate, elapsed_us, chunk_size) ==
    IF s.first_fc /\ processing_rate > 0
    THEN [s |-> [s EXCEPT !.first_fc = FALSE],
          c |-> set_initial_rate(c, processing_rate), did |-> "set_initial_rate"]
    ELSE IF elapsed_us > 10000
    THEN [s |-> [s EXCEPT !.prev_client_segments = processing_rate],
          c |-> on_feedback(c, Max(processing_rate - s.prev_client_segments, 0)
                                   * chunk_size * 55, elapsed_us),
          did |-> "on_feedback"]
    ELSE [s |-> s, c |-> c, did |-> "nothing"]

FcFrame == <<SegVars, CipherVars, PmVars, RxVars, net, XfVars>>

FcInit ==
    /\ srv = [first_fc |-> TRUE, prev_client_segments |-> 0]
    /\ cc = CongestionControl_new
    /\ cc_hist = <<>>
    /\ cli = [initial_sent |-> FALSE, frames |-> 0, assembled |-> 0]
    /\ srv_recv_rx = <<>>
    /\ net = <<>>
    /\ SegIdle /\ CipherIdle /\ PmIdle /\ RxIdle /\ XfIdle

\* run_client after InitAck: the first FlowControl, with the estimate
FcClientInitial(estimate, lost) ==
    /\ ~cli.initial_sent
    /\ cli' = [cli EXCEPT !.initial_sent = TRUE]
    /\ srv_recv_rx' = IF lost THEN srv_recv_rx
                      ELSE Append(srv_recv_rx, FlowControlDatagram(estimate))
    /\ UNCHANGED <<srv, cc, cc_hist, FcFrame>>

\* the scheduler loop's FlowControl, after `progress` more segments were assembled
FcClientTick(progress, lost) ==
    /\ cli.initial_sent
    /\ cli.frames < MaxFcFrames
    /\ LET assembled == cli.assembled + progress
       IN  /\ cli' = [cli EXCEPT !.frames = @ + 1, !.assembled = assembled]
           /\ srv_recv_rx' = IF lost THEN srv_recv_rx
                             ELSE Append(srv_recv_rx, FlowControlDatagram(assembled))
    /\ UNCHANGED <<srv, cc, cc_hist, FcFrame>>

\* _fc_task takes a datagram from the receive queue
FcRecv(elapsed_us) ==
    /\ srv_recv_rx # <<>>
    /\ srv_recv_rx' = Tail(srv_recv_rx)
    /\ LET fc == Head(srv_recv_rx)
           r == fc_task_step(srv, cc, fc.processing_rate, elapsed_us, 1200)
       IN  /\ srv' = r.s
           /\ cc' = r.c
           /\ cc_hist' = Append(cc_hist, [processing_rate |-> fc.processing_rate,
                                          did |-> r.did])
    /\ UNCHANGED <<cli, FcFrame>>

FcNext ==
    \/ \E estimate \in FcEstimates, lost \in BOOLEAN : FcClientInitial(estimate, lost)
    \/ \E progress \in 0..1, lost \in BOOLEAN : FcClientTick(progress, lost)
    \/ \E elapsed_us \in {5000, 100000} : FcRecv(elapsed_us)

SpecFc == FcInit /\ [][FcNext]_vars

\* C31: the example sender seeds send_rate from the first FlowControl frame it
\* receives and from that frame only: the seed is applied at most once, the
\* seeding frame is not fed to on_feedback, and no later FlowControl frame is
\* interpreted as a bandwidth hint.
C31_SeedFromFirstFrameOnly ==
    \A i \in 1..Len(cc_hist) : cc_hist[i].did = "set_initial_rate" => i = 1


----------------------------------------------------------------------------
(* chunk.rs SegmentBuilder::create_redundant_chunks with its ratio and its  *)
(* shuffle.  The ratio is a number of hundredths, so that                    *)
(* `(len as f64 * ratio).ceil()` is computed on integers.                    *)

\* `indices.shuffle(&mut rng)` then `.take(count)`, with replacement (a mutant)
take_with_replacement(n, count) == [1..Min(count, n) -> 1..n]

\* `indices.shuffle(&mut rng)` then `.take(count)`: every sequence of
\* min(count, n) different indices (1..n for the code's 0..n-1)
shuffle_take(n, count) ==
    {f \in [1..Min(count, n) -> 1..n] : \A i, j \in DOMAIN f : i # j => f[i] # f[j]}

\* `(chunks.len() as f64 * redundancy_ratio).ceil() as usize`
redundant_count_at(n, hundredths) == (n * hundredths + 99) \div 100

\* the ratios of the configurations (0.15, 0.20) and the ends of the range
RedRatios == {0, 15, 20, 50, 100}

RedInputs ==
    {[chunks |-> split_into_chunks(chunk_size, 1, [i \in 1..n |-> i % (MaxByte + 1)], 0),
      ratio |-> ratio] :
        chunk_size \in 1..MaxChunkSize, n \in 0..MaxFileLen, ratio \in RedRatios}

RedFrame == <<seg, CipherVars, CcVars, PmVars, RxVars, HsVars, XfVars>>

RedInit ==
    /\ seg_src \in RedInputs
    /\ seg = <<>> /\ seg_last = NoCall
    /\ CipherIdle /\ CcIdle /\ PmIdle /\ RxIdle /\ HsIdle /\ XfIdle

\* one call of create_redundant_chunks on the chunks of a segment
RedCall(sample) ==
    /\ sample \in shuffle_take(Len(seg_src.chunks),
                               redundant_count_at(Len(seg_src.chunks), seg_src.ratio))
    /\ seg_last' = [called |-> TRUE, op |-> "create_redundant_chunks",
                    result |-> create_redundant_chunks(seg_src.chunks, sample)]
    /\ UNCHANGED <<seg_src, RedFrame>>

RedSamples == UNION {[1..k -> 1..(MaxFileLen + 1)] : k \in 0..(MaxFileLen + 1)}

RedNext == \E sample \in RedSamples : RedCall(sample)

SpecRedundant == RedInit /\ [][RedNext]_vars

----------------------------------------------------------------------------
(* run_client's scheduler loop: the checks that end it, with the clock.     *)
(* Times are in milliseconds.  seg_src holds what InitAck announced         *)
(* (expected_segments, total_file_size), cli the loop (running, the         *)
(* assembled count and the time of its latest iteration), seg_last the      *)
(* latest iteration with its readings and its outcome.                      *)

\* the loop's checks without the 95% condition of the 10 s rule (a mutant)
scheduler_exit_any_progress(assembled_count, expected_segments, quiet_ms, elapsed_ms, total_file_size) ==
    IF assembled_count >= expected_segments THEN "complete"
    ELSE IF quiet_ms > 10000 THEN "95%"
    ELSE IF elapsed_ms > Max(total_file_size \div (3 * 1024 * 1024) + 120, 180) * 1000
    THEN "deadline"
    ELSE "none"

\* the `break`s of one iteration, in the order of the code: all segments
\* assembled; `last_chunk.elapsed() > 10 s` with progress >= 0.95;
\* `last_chunk.elapsed() > 60 s`; `start.elapsed() > total_timeout_secs`
scheduler_exit(assembled_count, expected_segments, quiet_ms, elapsed_ms, total_file_size) ==
    IF assembled_count >= expected_segments THEN "complete"
    ELSE IF quiet_ms > 10000 /\ assembled_count * 100 >= 95 * expected_segments THEN "95%"
    ELSE IF quiet_ms > 60000 THEN "60s"
    ELSE IF elapsed_ms > Max(total_file_size \div (3 * 1024 * 1024) + 120, 180) * 1000
    THEN "deadline"
    ELSE "none"

\* sessions: 100 or 20 segments; a file for which the deadline is 180 s and one
\* of 300 MiB and a few bytes, for which it is 220 s
SchedSessions ==
    [expected_segments : {20, 100}, total_file_size : {6553600, 300 * 1024 * 1024 + 5}]

SchedCounts == {0, 18, 19, 20, 93, 94, 95, 100}
SchedQuiet == {100, 10000, 10001, 60000, 60001}
SchedElapsed == {100, 10001, 60001, 180000, 180001, 220000, 220001}

SchedFrame == <<seg, CipherVars, CcVars, PmVars, RxVars, srv, net, srv_recv_rx, XfVars>>

SchedInit ==
    /\ seg_src \in SchedSessions
    /\ cli = [running |-> TRUE, assembled_count |-> 0, elapsed_ms |-> 0]
    /\ seg = <<>> /\ seg_last = NoCall
    /\ srv = <<>> /\ net = <<>> /\ srv_recv_rx = <<>>
    /\ CipherIdle /\ CcIdle /\ PmIdle /\ RxIdle /\ XfIdle

\* one iteration of the loop, elapsed_ms after the start, quiet_ms after the
\* latest datagram, with assembled_count segments assembled
SchedTick(assembled_count, quiet_ms, elapsed_ms) ==
    /\ cli.running
    /\ assembled_count >= cli.assembled_count
    /\ elapsed_ms > cli.elapsed_ms
    /\ quiet_ms <= elapsed_ms
    /\ LET exit == scheduler_exit(assembled_count, seg_src.expected_segments, quiet_ms,
                                  elapsed_ms, seg_src.total_file_size)
       IN  /\ seg_last' = [called |-> TRUE, assembled_count |-> assembled_count,
                           quiet_ms |-> quiet_ms, elapsed_ms |-> elapsed_ms, exit |-> exit]
           /\ cli' = [running |-> exit = "none", assembled_count |-> assembled_count,
                      elapsed_ms |-> elapsed_ms]
    /\ UNCHANGED <<seg_src, SchedFrame>>

SchedNext ==
    \E assembled_count \in SchedCounts, quiet_ms \in SchedQuiet, elapsed_ms \in SchedElapsed :
        SchedTick(assembled_count, quiet_ms, elapsed_ms)

SpecSched == SchedInit /\ [][SchedNext]_vars

\* C35: the scheduler loop exits at a tick iff all segments are assembled, or
\* there was no arrival for more than 10 s and at least 95% are assembled, or
\* there was no arrival for more than 60 s, or more than
\* max(180, total_file_size / 3 MiB + 120) s have passed; at 93% without new
\* data it does not exit at the 10 s mark and does exit at the 60 s mark.
C35_SchedulerExit ==
    seg_last.called =>
        LET a == seg_last.assembled_count
            n == seg_src.expected_segments
            q == seg_last.quiet_ms
            limit_s == IF seg_src.total_file_size \div (3 * 1024 * 1024) + 120 > 180
                       THEN seg_src.total_file_size \div (3 * 1024 * 1024) + 120
                       ELSE 180
        IN  /\ (~cli.running) <=>
                   \/ a >= n
                   \/ q > 10000 /\ a * 100 >= 95 * n
                   \/ q > 60000
                   \/ seg_last.elapsed_ms > limit_s * 1000
            /\ (a * 100 = 93 * n /\ q = 10001 /\ seg_last.elapsed_ms <= 180000) => cli.running
            /\ (a * 100 = 93 * n /\ q = 60001) => ~cli.running

\* C35 witness: at 93% the loop has ended 60 s after the latest arrival
C35_Witness ==
    /\ seg_last.called
    /\ seg_last.assembled_count * 100 = 93 * seg_src.expected_segments
    /\ seg_last.quiet_ms = 60001
    /\ seg_last.exit = "60s"
    /\ cli.elapsed_ms = 60001


----------------------------------------------------------------------------
(* The hand-over from the workers to assemble_task when more segments       *)
(* complete than the assembled channel holds.  The channel of 1000 entries  *)
(* is scaled to MaxAssembled entries; every segment is a single chunk.      *)

MaxAssembled == 1

HoSegments == 1..(MaxAssembled + 1)

\* the chunk datagram of each one-byte segment
HoPool == {Chunk_to_bytes(split_into_chunks(1, s, <<s % (MaxByte + 1)>>, 0)[1]) : s \in HoSegments}

HoInit ==
    /\ rx_encrypt = FALSE
    /\ recv_rx = <<>>
    /\ workers = [w \in 1..MaxWorkers |-> WorkerIdle]
    /\ segment_chunks = <<>>
    /\ segment_total_chunks = <<>>
    /\ assembled_segments = {}
    /\ assembled_ch = <<>>
    /\ decrypted_segments = <<>>
    /\ rx_hist = RxHistInit
    /\ SegIdle /\ CipherIdle /\ CcIdle /\ PmIdle /\ HsIdle /\ XfIdle

\* the receive task queues a datagram
HoArrive(bytes) ==
    /\ rx_hist.taken + Len(recv_rx) < MaxRxArrivals
    /\ recv_rx' = Append(recv_rx, bytes)
    /\ UNCHANGED <<rx_encrypt, workers, segment_chunks, segment_total_chunks,
                   assembled_segments, assembled_ch, decrypted_segments, rx_hist, RxFrame>>

HoNext ==
    \/ \E bytes \in HoPool : HoArrive(bytes)
    \/ \E w \in 1..MaxWorkers : WorkerRecv(w) /\ RxHistRecv(w) /\ UNCHANGED RxFrame
    \/ \E w \in 1..MaxWorkers : WorkerStore(w) /\ RxHistStore(w) /\ UNCHANGED RxFrame
    \/ \E w \in 1..MaxWorkers :
           WorkerMarkAt(w, MaxAssembled) /\ RxHistMarkAt(w, MaxAssembled) /\ UNCHANGED RxFrame
    \/ Assemble({}) /\ RxHistAssemble({}) /\ UNCHANGED RxFrame

SpecHandover == HoInit /\ [][HoNext]_vars

\* C36: every segment id recorded in the assembled set reaches the output
\* segment map; a completed segment is never lost between a worker and the
\* assembler: once the workers are idle and the assembled channel is drained,
\* the output holds every segment of the assembled set.
C36_AssembledReachOutput ==
    (/\ \A w \in DOMAIN workers : workers[w].pc = "recv"
     /\ assembled_ch = <<>>) =>
        assembled_segments \subseteq DOMAIN decrypted_segments


-----------------------------------------------------------------------------
(* examples/large_file_test.rs: the locks of the receiver (workers and the
   scheduler loop).  A step of a task is the code between two awaits.  Here
   workers[w] is [pc], cli is the scheduler loop [pc, running, done, nack], and
   rx_hist is [policy, locks]: the tokio locks, each [holders, queue], under a
   queue policy.  Task 0 is the scheduler loop, task w >= 1 is worker w. *)

LkLocks == {"recv_rx", "last_chunk_time", "segment_total_chunks", "segment_chunks",
            "assembled_segments"}

\* "fair": a request queues behind every earlier waiter, so that a waiting
\* writer blocks new readers (tokio); "read_preferring": a reader enters
\* whenever no writer holds the lock
LkPolicies == {"fair", "read_preferring"}

LkTasks == 0..MaxWorkers

LkFree == [holders |-> {}, queue |-> <<>>]

\* whether a request of `mode` can enter next to the holders of lock l
compatible(l, mode) ==
    IF mode = "read" THEN \A h \in l.holders : h.mode = "read" ELSE l.holders = {}

\* hand the lock to the waiters at the head of the queue, in queue order
RECURSIVE grant(_)
grant(l) ==
    IF l.queue # <<>> /\ compatible(l, Head(l.queue).mode)
    THEN grant([holders |-> l.holders \cup {Head(l.queue)}, queue |-> Tail(l.queue)])
    ELSE l

\* lock.read().await / lock.write().await / mutex.lock().await, up to the
\* point where the task either holds the lock or is queued for it
acquire(s, name, t, mode) ==
    LET l == s.locks[name]
        enters == /\ compatible(l, mode)
                  /\ \/ l.queue = <<>>
                     \/ s.policy = "read_preferring" /\ mode = "read"
        req == [task |-> t, mode |-> mode]
    IN  [s EXCEPT !.locks[name] =
            IF enters THEN [l EXCEPT !.holders = @ \cup {req}]
                      ELSE [l EXCEPT !.queue = Append(@, req)]]

\* the guard is dropped: the waiters that can enter now do
release(s, name, t) ==
    LET l == s.locks[name]
    IN  [s EXCEPT !.locks[name] =
            grant([l EXCEPT !.holders = {h \in @ : h.task # t}])]

holds(s, name, t) == \E h \in s.locks[name].holders : h.task = t

\* the order in which the NACK section of the scheduler loop takes its three
\* read guards (chunks_map, totals_map, assembled_set)
nack_lock_order_reversed == <<"assembled_segments", "segment_total_chunks", "segment_chunks">>

nack_lock_order == <<"segment_chunks", "segment_total_chunks", "assembled_segments">>

LkFrame == <<SegVars, CipherVars, CcVars, PmVars, rx_encrypt, recv_rx, segment_chunks,
             segment_total_chunks, assembled_segments, assembled_ch, decrypted_segments,
             srv, net, srv_recv_rx, XfVars>>

LkInit ==
    /\ workers = [w \in 1..MaxWorkers |-> [pc |-> "loop"]]
    /\ cli = [pc |-> "sleep", running |-> TRUE, done |-> FALSE, nack |-> FALSE]
    /\ \E policy \in LkPolicies :
           rx_hist = [policy |-> policy, locks |-> [name \in LkLocks |-> LkFree]]
    /\ rx_encrypt = FALSE /\ recv_rx = <<>> /\ segment_chunks = <<>>
    /\ segment_total_chunks = <<>> /\ assembled_segments = {} /\ assembled_ch = <<>>
    /\ decrypted_segments = <<>>
    /\ SegIdle /\ CipherIdle /\ CcIdle /\ PmIdle /\ XfIdle
    /\ srv = <<>> /\ net = <<>> /\ srv_recv_rx = <<>>

\* worker: top of the loop, rx.lock().await
WkLockRx(w) ==
    /\ workers[w].pc = "loop"
    /\ rx_hist' = acquire(rx_hist, "recv_rx", w, "write")
    /\ workers' = [workers EXCEPT ![w].pc = "recv_rx"]
    /\ UNCHANGED <<cli, LkFrame>>

\* worker: timeout(50 ms, rx_guard.recv()) under the queue's mutex; with a
\* datagram it goes on to last_chunk.write().await, on a timeout it reads the
\* running flag
WkRecv(w, got) ==
    /\ workers[w].pc = "recv_rx"
    /\ holds(rx_hist, "recv_rx", w)
    /\ IF got
       THEN /\ rx_hist' = acquire(release(rx_hist, "recv_rx", w), "last_chunk_time", w, "write")
            /\ workers' = [workers EXCEPT ![w].pc = "last_chunk_time"]
       ELSE /\ rx_hist' = release(rx_hist, "recv_rx", w)
            /\ workers' = [workers EXCEPT ![w].pc = IF cli.running THEN "loop" ELSE "exited"]
    /\ UNCHANGED <<cli, LkFrame>>

\* worker: the time of the last datagram is written; a datagram that parses
\* as a chunk goes on to totals.write().await
WkTouch(w, parsed) ==
    /\ workers[w].pc = "last_chunk_time"
    /\ holds(rx_hist, "last_chunk_time", w)
    /\ IF parsed
       THEN /\ rx_hist' = acquire(release(rx_hist, "last_chunk_time", w),
                                  "segment_total_chunks", w, "write")
            /\ workers' = [workers EXCEPT ![w].pc = "segment_total_chunks"]
       ELSE /\ rx_hist' = release(rx_hist, "last_chunk_time", w)
            /\ workers' = [workers EXCEPT ![w].pc = "loop"]
    /\ UNCHANGED <<cli, LkFrame>>

\* worker: the total is inserted, the guard dropped, then chunks.write().await
WkTotals(w) ==
    /\ workers[w].pc = "segment_total_chunks"
    /\ holds(rx_hist, "segment_total_chunks", w)
    /\ rx_hist' = acquire(release(rx_hist, "segment_total_chunks", w), "segment_chunks", w, "write")
    /\ workers' = [workers EXCEPT ![w].pc = "segment_chunks"]
    /\ UNCHANGED <<cli, LkFrame>>

\* worker: the chunk is stored under chunks_guard, then assembled.read().await
\* with chunks_guard still held
WkStore(w) ==
    /\ workers[w].pc = "segment_chunks"
    /\ holds(rx_hist, "segment_chunks", w)
    /\ rx_hist' = acquire(rx_hist, "assembled_segments", w, "read")
    /\ workers' = [workers EXCEPT ![w].pc = "assembled_segments.read"]
    /\ UNCHANGED <<cli, LkFrame>>

\* worker: already_assembled is read; chunks_guard is dropped (by drop() for
\* a complete segment, at the end of the block otherwise), and a complete
\* segment goes on to assembled.write().await
WkCheck(w, complete) ==
    /\ workers[w].pc = "assembled_segments.read"
    /\ holds(rx_hist, "assembled_segments", w)
    /\ LET dropped == release(release(rx_hist, "assembled_segments", w), "segment_chunks", w)
       IN  IF complete
           THEN /\ rx_hist' = acquire(dropped, "assembled_segments", w, "write")
                /\ workers' = [workers EXCEPT ![w].pc = "assembled_segments.write"]
           ELSE /\ rx_hist' = dropped
                /\ workers' = [workers EXCEPT ![w].pc = "loop"]
    /\ UNCHANGED <<cli, LkFrame>>

\* worker: the segment id is inserted and the segment handed on by try_send
WkMark(w) ==
    /\ workers[w].pc = "assembled_segments.write"
    /\ holds(rx_hist, "assembled_segments", w)
    /\ rx_hist' = release(rx_hist, "assembled_segments", w)
    /\ workers' = [workers EXCEPT ![w].pc = "loop"]
    /\ UNCHANGED <<cli, LkFrame>>

\* scheduler loop: after the sleep, assembled_segments.read().await
SchWake ==
    /\ cli.pc = "sleep"
    /\ rx_hist' = acquire(rx_hist, "assembled_segments", 0, "read")
    /\ cli' = [cli EXCEPT !.pc = "assembled_count"]
    /\ UNCHANGED <<workers, LkFrame>>

\* scheduler loop: assembled_count is read, then last_chunk_time.read().await
SchCount ==
    /\ cli.pc = "assembled_count"
    /\ holds(rx_hist, "assembled_segments", 0)
    /\ rx_hist' = acquire(release(rx_hist, "assembled_segments", 0), "last_chunk_time", 0, "read")
    /\ cli' = [cli EXCEPT !.pc = "last_chunk"]
    /\ UNCHANGED <<workers, LkFrame>>

\* what the loop does after the flow-control section: it ends when all
\* segments are assembled, enters the NACK section when no datagram came for
\* 200 ms, and sleeps otherwise
after_flow_control(s, c) ==
    IF c.done THEN [s |-> s, c |-> [c EXCEPT !.pc = "join", !.running = FALSE]]
    ELSE IF c.nack THEN [s |-> acquire(s, nack_lock_order[1], 0, "read"),
                         c |-> [c EXCEPT !.pc = "nack.1"]]
    ELSE [s |-> s, c |-> [c EXCEPT !.pc = "sleep"]]

\* scheduler loop: last_chunk is read; fc: 100 ms have passed since the last
\* FlowControl, done: assembled_count >= expected_segments, nack: no datagram
\* for more than 200 ms
SchLast(fc, done, nack) ==
    /\ cli.pc = "last_chunk"
    /\ holds(rx_hist, "last_chunk_time", 0)
    /\ LET s == release(rx_hist, "last_chunk_time", 0)
           c == [cli EXCEPT !.done = done, !.nack = nack]
           r == after_flow_control(s, c)
       IN  IF fc
           THEN /\ rx_hist' = acquire(s, "segment_chunks", 0, "read")
                /\ cli' = [c EXCEPT !.pc = "fc.chunks_map"]
           ELSE /\ rx_hist' = r.s
                /\ cli' = r.c
    /\ UNCHANGED <<workers, LkFrame>>

\* scheduler loop, flow control: with chunks_map held,
\* assembled_segments.read().await
SchFcChunks ==
    /\ cli.pc = "fc.chunks_map"
    /\ holds(rx_hist, "segment_chunks", 0)
    /\ rx_hist' = acquire(rx_hist, "assembled_segments", 0, "read")
    /\ cli' = [cli EXCEPT !.pc = "fc.assembled_set"]
    /\ UNCHANGED <<workers, LkFrame>>

\* scheduler loop, flow control: the frame is sent by try_send and both
\* guards are dropped at the end of the block
SchFcSend ==
    /\ cli.pc = "fc.assembled_set"
    /\ holds(rx_hist, "assembled_segments", 0)
    /\ LET s == release(release(rx_hist, "assembled_segments", 0), "segment_chunks", 0)
           r == after_flow_control(s, cli)
       IN  rx_hist' = r.s /\ cli' = r.c
    /\ UNCHANGED <<workers, LkFrame>>

\* scheduler loop, NACK section: with the first i guards held, the next read
\* guard is awaited
SchNackLock(i) ==
    /\ cli.pc = IF i = 1 THEN "nack.1" ELSE "nack.2"
    /\ holds(rx_hist, nack_lock_order[i], 0)
    /\ rx_hist' = acquire(rx_hist, nack_lock_order[i + 1], 0, "read")
    /\ cli' = [cli EXCEPT !.pc = IF i = 1 THEN "nack.2" ELSE "nack.3"]
    /\ UNCHANGED <<workers, LkFrame>>

\* scheduler loop, NACK section: the NACKs are sent by try_send and the three
\* guards are dropped at the end of the block
SchNackSend ==
    /\ cli.pc = "nack.3"
    /\ holds(rx_hist, nack_lock_order[3], 0)
    /\ rx_hist' = release(release(release(rx_hist, nack_lock_order[3], 0),
                                  nack_lock_order[2], 0), nack_lock_order[1], 0)
    /\ cli' = [cli EXCEPT !.pc = "sleep"]
    /\ UNCHANGED <<workers, LkFrame>>

\* after the loop: running is false and every worker handle is awaited
SchJoin ==
    /\ cli.pc = "join"
    /\ \A w \in DOMAIN workers : workers[w].pc = "exited"
    /\ cli' = [cli EXCEPT !.pc = "joined"]
    /\ UNCHANGED <<workers, rx_hist, LkFrame>>

LkNext ==
    \/ \E w \in 1..MaxWorkers : WkLockRx(w)
    \/ \E w \in 1..MaxWorkers, got \in BOOLEAN : WkRecv(w, got)
    \/ \E w \in 1..MaxWorkers, parsed \in BOOLEAN : WkTouch(w, parsed)
    \/ \E w \in 1..MaxWorkers : WkTotals(w)
    \/ \E w \in 1..MaxWorkers : WkStore(w)
    \/ \E w \in 1..MaxWorkers, complete \in BOOLEAN : WkCheck(w, complete)
    \/ \E w \in 1..MaxWorkers : WkMark(w)
    \/ SchWake
    \/ SchCount
    \/ \E fc, done, nack \in BOOLEAN : SchLast(fc, done, nack)
    \/ SchFcChunks
    \/ SchFcSend
    \/ \E i \in 1..2 : SchNackLock(i)
    \/ SchNackSend
    \/ SchJoin

SpecLocks == LkInit /\ [][LkNext]_vars

\* the lock a task is queued for, if any
LkQueuedOn(t) == {name \in LkLocks :
                    \E i \in DOMAIN rx_hist.locks[name].queue :
                        rx_hist.locks[name].queue[i].task = t}

\* the tasks that have to move before task t can: the holders of the lock it
\* is queued for that its request conflicts with, and the waiters ahead of it;
\* for the scheduler joining the workers, the workers that have not exited
LkBlockers(t) ==
    UNION {LET l == rx_hist.locks[name]
               i == CHOOSE i \in DOMAIN l.queue : l.queue[i].task = t
           IN  {h.task : h \in {h \in l.holders :
                                   l.queue[i].mode = "write" \/ h.mode = "write"}}
               \cup {l.queue[j].task : j \in 1..(i - 1)}
           : name \in LkQueuedOn(t)}
    \cup (IF t = 0 /\ cli.pc = "join"
          THEN {w \in DOMAIN workers : workers[w].pc # "exited"} ELSE {})

\* C38: in every interleaving of the workers and the scheduler loop no set of
\* tasks waits on each other forever: there is no non-empty set of tasks each
\* of which is blocked by a task of the set, under the fair policy (a waiting
\* writer blocks new readers) and under the read-preferring one.
C38_NoDeadlock ==
    \A S \in SUBSET LkTasks : S # {} => \E t \in S : LkBlockers(t) \cap S = {}

\* a worker holding the chunk map's write guard is queued for the assembled
\* set's read guard behind another worker's write request, while the scheduler
\* holds the assembled set
C38_Witness ==
    /\ rx_hist.policy = "fair"
    /\ holds(rx_hist, "assembled_segments", 0)
    /\ \E w \in DOMAIN workers :
           /\ holds(rx_hist, "segment_chunks", w)
           /\ LET q == rx_hist.locks["assembled_segments"].queue
              IN  /\ Len(q) = 2
                  /\ q[1].mode = "write"
                  /\ q[2] = [task |-> w, mode |-> "read"]

-----------------------------------------------------------------------------
(* The transmit loops of examples/large_file_test.rs run_server and of
   bin/server.rs, one await at a time: the cache insert, then one
   `send(..).await` per chunk, next to the send task and the NACK lookup.
   Here xfer_in is [program, data, chunk_size, segment_size, redundancy], srv
   holds the loops [pc, segment_id, offset, pending], chunks_cache is the
   cache (the chunks of a segment in the example, its bytes in bin/server),
   net is [data, socket]: the data queue and the segment ids of the datagrams
   written to the socket, nack_ch the NACKs received, seg_last the latest cache lookup. *)

\* datagrams on the data queue before a `send(..).await` waits
MaxCfQueue == 2

CfInputs ==
    [program : {"example", "bin_server"}, data : {[i \in 1..MaxSegLen |-> i]},
     chunk_size : 1..MaxChunkSize, segment_size : {MaxChunkSize}, redundancy : {0, 15}]

\* the cache without the insert (a mutant)
cache_insert_skipped(cache, segment_id, value) == cache

\* `cache.insert(segment_id, ..)` under the cache's write guard
cache_insert(cache, segment_id, value) ==
    [i \in DOMAIN cache \cup {segment_id} |-> IF i = segment_id THEN value ELSE cache[i]]

\* the chunks a cache entry stands for: the example caches the chunks,
\* bin/server the segment, which it splits again at each NACK
cached_chunks(x, cache, segment_id) ==
    IF x.program = "example" THEN cache[segment_id]
    ELSE split_into_chunks(x.chunk_size, segment_id, cache[segment_id], 0)

\* the segment ids of the datagrams of a queue
segments_of(frames) == {frames[i].header.segment_id : i \in DOMAIN frames}

CfFrame == <<seg, seg_src, CipherVars, CcVars, PmVars, RxVars, cli, srv_recv_rx, received_data>>

CfInit ==
    /\ xfer_in \in CfInputs
    /\ srv = <<>>
    /\ chunks_cache = <<>>
    /\ net = [data |-> <<>>, socket |-> {}]
    /\ nack_ch = <<>>
    /\ seg_last = NoCall
    /\ seg = <<>> /\ seg_src = <<>>
    /\ cli = <<>> /\ srv_recv_rx = <<>> /\ received_data = <<>>
    /\ CipherIdle /\ CcIdle /\ PmIdle /\ RxIdle

\* a transmit loop starts: once in the example, at every Init in bin/server
CfSpawn ==
    /\ Len(srv) < (IF xfer_in.program = "example" THEN 1 ELSE MaxInits)
    /\ srv' = Append(srv, [pc |-> "cache", segment_id |-> 1, offset |-> 0, pending |-> <<>>])
    /\ UNCHANGED <<xfer_in, chunks_cache, net, nack_ch, seg_last, CfFrame>>

\* loop t up to its first send: the segment is split, the redundant chunks
\* are sampled and the segment is inserted into the cache
CfCache(t, sample) ==
    /\ t \in DOMAIN srv
    /\ srv[t].pc = "cache"
    /\ LET segment_id == srv[t].segment_id
           offset == srv[t].offset
           end == Min(offset + xfer_in.segment_size, Len(xfer_in.data))
           segment_data == SubSeq(xfer_in.data, offset + 1, end)
           chunks == split_into_chunks(xfer_in.chunk_size, segment_id, segment_data, 0)
       IN  /\ \A k \in DOMAIN sample : sample[k] \in 1..Len(chunks)
           /\ Len(sample) = redundant_count_at(Len(chunks), xfer_in.redundancy)
           /\ chunks_cache' =
                  cache_insert(chunks_cache, segment_id,
                               IF xfer_in.program = "example" THEN chunks ELSE segment_data)
           /\ srv' = [srv EXCEPT ![t] =
                  [pc |-> "send", segment_id |-> segment_id, offset |-> end,
                   pending |-> [i \in 1..Len(chunks) |-> Chunk_to_bytes(chunks[i])]
                               \o [k \in 1..Len(sample) |->
                                      Chunk_to_bytes(create_redundant_chunks(chunks, sample)[k])]]]
    /\ UNCHANGED <<xfer_in, net, nack_ch, seg_last, CfFrame>>

\* loop t: one `send(..).await` on the data queue, which waits while the
\* queue is full; after the last chunk the loop goes to the next segment
CfSend(t) ==
    /\ t \in DOMAIN srv
    /\ srv[t].pc = "send"
    /\ Len(net.data) < MaxCfQueue
    /\ net' = [net EXCEPT !.data = Append(@, Head(srv[t].pending))]
    /\ srv' = [srv EXCEPT ![t] =
           IF Len(srv[t].pending) > 1 THEN [@ EXCEPT !.pending = Tail(@)]
           ELSE [pc |-> IF srv[t].offset < Len(xfer_in.data) THEN "cache" ELSE "done",
                 segment_id |-> srv[t].segment_id + 1, offset |-> srv[t].offset,
                 pending |-> <<>>]]
    /\ UNCHANGED <<xfer_in, chunks_cache, nack_ch, seg_last, CfFrame>>

\* the send task writes the next datagram of the data queue to the socket
CfSendTask ==
    /\ net.data # <<>>
    /\ net' = [data |-> Tail(net.data), socket |-> net.socket \cup {Head(net.data).header.segment_id}]
    /\ UNCHANGED <<xfer_in, srv, chunks_cache, nack_ch, seg_last, CfFrame>>

\* the receiver NACKs a segment it has seen a datagram of
CfPeerNack(segment_id, ids) ==
    /\ Len(nack_ch) < MaxSocket
    /\ segment_id \in net.socket
    /\ nack_ch' = Append(nack_ch, NackDatagram(segment_id, ids))
    /\ UNCHANGED <<xfer_in, srv, chunks_cache, net, seg_last, CfFrame>>

\* a NACK is served: `cache.get(&nack.segment_id)` and the listed chunks on
\* the data queue; the example starts its NACK workers after its transmit
\* loop, bin/server serves NACKs next to its loops
CfNackLookup ==
    /\ nack_ch # <<>>
    /\ xfer_in.program = "example" => srv # <<>> /\ \A t \in DOMAIN srv : srv[t].pc = "done"
    /\ LET nack == Head(nack_ch)
           found == nack.segment_id \in DOMAIN chunks_cache
           again == IF found
                    THEN retransmit([i \in {nack.segment_id} |->
                                        cached_chunks(xfer_in, chunks_cache, nack.segment_id)],
                                    nack)
                    ELSE <<>>
       IN  /\ Len(net.data) + Len(again) <= MaxCfQueue
           /\ net' = [net EXCEPT !.data = @ \o again]
           /\ seg_last' = [called |-> TRUE, segment_id |-> nack.segment_id, found |-> found]
    /\ nack_ch' = Tail(nack_ch)
    /\ UNCHANGED <<xfer_in, srv, chunks_cache, CfFrame>>

CfNext ==
    \/ CfSpawn
    \/ \E t \in 1..MaxInits, sample \in SeqsUpTo(1..MaxChunkSize, 1) : CfCache(t, sample)
    \/ \E t \in 1..MaxInits : CfSend(t)
    \/ CfSendTask
    \/ \E segment_id \in 1..MaxSegLen, ids \in {<<0>>, <<1, 0>>} : CfPeerNack(segment_id, ids)
    \/ CfNackLookup

SpecCacheFirst == CfInit /\ [][CfNext]_vars

\* C39: whenever a chunk of segment s is in the data queue or has been written
\* to the socket, segment s is in the retransmit cache, and a NACK for a
\* segment the receiver has seen finds that segment cached.
C39_CachedBeforeSent ==
    /\ segments_of(net.data) \subseteq DOMAIN chunks_cache
    /\ net.socket \subseteq DOMAIN chunks_cache
    /\ seg_last.called => seg_last.found

\* a NACK was served from the cache while a transmit loop is between two
\* sends, with datagrams in the queue and on the socket
C39_Witness ==
    /\ seg_last.called /\ seg_last.found
    /\ net.data # <<>> /\ net.socket # {}
    /\ \E t \in DOMAIN srv : srv[t].pc = "send"

-----------------------------------------------------------------------------
(* A NACK served from the cache: the NACK workers of
   examples/large_file_test.rs run_server and sender.rs
   Sender::retransmit_chunks.  Here xfer_in is [program], chunks_cache the
   cache (segment id -> chunks in the example, -> SegmentState in the Sender),
   net the datagrams the latest call has sent, in order, and seg_last the
   latest call: its arguments and the cache before it. *)

\* chunk ids of a NACK: 0..MaxSegLen, of which MaxSegLen is cached for no segment
NkIds == SeqsUpTo(0..MaxSegLen, 2)

\* the segments that get cached: one to MaxSegLen chunks of one byte
NkSegments ==
    {[data |-> [i \in 1..n |-> i % (MaxByte + 1)], chunk_size |-> 1] : n \in 1..MaxSegLen}

\* the loop over chunk_ids ended at the first id that is not cached (a mutant)
retransmit_chunks_until_invalid(segments, segment_id, chunk_ids) ==
    IF segment_id \in DOMAIN segments
    THEN LET chunks == segments[segment_id].chunks
             stop == IF \E k \in DOMAIN chunk_ids : chunk_ids[k] >= Len(chunks)
                     THEN CHOOSE k \in DOMAIN chunk_ids :
                              /\ chunk_ids[k] >= Len(chunks)
                              /\ \A j \in 1..(k - 1) : chunk_ids[j] < Len(chunks)
                     ELSE Len(chunk_ids) + 1
         IN  [segments |-> segments,
              sent |-> [k \in 1..(stop - 1) |-> Chunk_to_bytes(chunks[chunk_ids[k] + 1])],
              retransmitted_chunks |-> stop - 1]
    ELSE [segments |-> segments, sent |-> <<>>, retransmitted_chunks |-> 0]

\* Sender::retransmit_chunks: the segments map after the call, the datagrams
\* sent and the count added to stats.retransmitted_chunks
retransmit_chunks(segments, segment_id, chunk_ids) ==
    IF segment_id \in DOMAIN segments
    THEN LET chunks == segments[segment_id].chunks
             held == SelectSeq(chunk_ids, LAMBDA c : c < Len(chunks))
         IN  [segments |-> segments,
              sent |-> [k \in 1..Len(held) |-> Chunk_to_bytes(chunks[held[k] + 1])],
              retransmitted_chunks |-> Len(held)]
    ELSE [segments |-> segments, sent |-> <<>>, retransmitted_chunks |-> 0]

\* the chunks of a cache entry
entry_chunks(x, entry) == IF x.program = "example" THEN entry ELSE entry.chunks

NkFrame == <<seg, seg_src, CipherVars, CcVars, PmVars, RxVars, srv, cli, srv_recv_rx,
             nack_ch, received_data>>

NkInit ==
    /\ xfer_in \in [program : {"example", "sender"}]
    /\ chunks_cache = <<>>
    /\ net = <<>>
    /\ seg_last = NoCall
    /\ seg = <<>> /\ seg_src = <<>>
    /\ srv = <<>> /\ cli = <<>> /\ srv_recv_rx = <<>> /\ nack_ch = <<>> /\ received_data = <<>>
    /\ CipherIdle /\ CcIdle /\ PmIdle /\ RxIdle

\* the next segment is split and cached (run_server's loop, Sender::send_data)
NkCacheSegment(s) ==
    /\ Len(chunks_cache) < MaxSendCalls
    /\ LET segment_id == Len(chunks_cache) + 1
           chunks == split_into_chunks(s.chunk_size, segment_id, s.data, 0)
       IN  chunks_cache' = Append(chunks_cache,
                                  IF xfer_in.program = "example" THEN chunks
                                  ELSE SegmentState_new(chunks))
    /\ net' = <<>>
    /\ seg_last' = NoCall
    /\ UNCHANGED <<xfer_in, NkFrame>>

\* a NACK worker of the example serves one NACK under the cache's read guard
NkWorker(segment_id, chunk_ids) ==
    /\ xfer_in.program = "example"
    /\ net' = retransmit(chunks_cache, NackDatagram(segment_id, chunk_ids))
    /\ seg_last' = [called |-> TRUE, segment_id |-> segment_id, chunk_ids |-> chunk_ids,
                    cache |-> chunks_cache]
    /\ UNCHANGED <<xfer_in, chunks_cache, NkFrame>>

\* a call of Sender::retransmit_chunks
NkRetransmitChunks(segment_id, chunk_ids) ==
    /\ xfer_in.program = "sender"
    /\ LET r == retransmit_chunks(chunks_cache, segment_id, chunk_ids)
       IN  /\ chunks_cache' = r.segments
           /\ net' = r.sent
           /\ seg_last' = [called |-> TRUE, segment_id |-> segment_id,
                           chunk_ids |-> chunk_ids, cache |-> chunks_cache,
                           retransmitted_chunks |-> r.retransmitted_chunks]
    /\ UNCHANGED <<xfer_in, NkFrame>>

NkNext ==
    \/ \E s \in NkSegments : NkCacheSegment(s)
    \/ \E segment_id \in 1..(MaxSendCalls + 1), chunk_ids \in NkIds :
           NkWorker(segment_id, chunk_ids)
    \/ \E segment_id \in 1..(MaxSendCalls + 1), chunk_ids \in NkIds :
           NkRetransmitChunks(segment_id, chunk_ids)

SpecNack == NkInit /\ [][NkNext]_vars

\* the positions of a NACK's chunk id list that name a cached chunk
NkValid(cache, segment_id, chunk_ids) ==
    {k \in DOMAIN chunk_ids :
        /\ segment_id \in DOMAIN cache
        /\ chunk_ids[k] < Len(entry_chunks(xfer_in, cache[segment_id]))}

====
